---------------------------- MODULE Spec2Model ----------------------------
(***************************************************************************)
(* The ConnectedCewenBox protocol engine.  Host side:                      *)
(*   - the request/response correlator of CommunicationManager.ts          *)
(*     (specification Spec),                                               *)
(*   - the stream reassembler of CommunicationManager.ts together with the *)
(*     frame and TLV decoders of ProtocolService.ts (specification SpecRx),*)
(*   - the frame codec of ProtocolService.ts (specifications SpecHostCodec *)
(*     and SpecBitFlip), its TLV codec (SpecHostTlv) and its packet        *)
(*     counter (SpecCounter),                                              *)
(*   - executeWithRetry (SpecRetry), the API methods over sendRequest      *)
(*     (SpecApi) and the reassembler under a flood (SpecFlood),            *)
(*   - connect and cancelConnection of BluetoothManager (SpecBluetooth).   *)
(* Device side:                                                            *)
(*   - byte stuffing and the frame codec of protocol.c (specifications     *)
(*     SpecStuffing, SpecDevCodec, SpecHostToDevice),                      *)
(*   - the command dispatcher of command_handler.c and the receive path of *)
(*     communication.c (specification SpecDispatch),                       *)
(*   - the TLV readers of protocol.c (SpecTlvRead) and the log query of    *)
(*     command_handler.c (SpecGetLog),                                     *)
(*   - the temperature log ring (SpecTempLog) and the alarm configuration  *)
(*     with galm and salm (SpecAlarm) of device_control.c,                 *)
(*   - the UART reception, task and interrupt callbacks of communication.c *)
(*     (SpecUart).                                                         *)
(* Bytes are integers 0..255, byte buffers are sequences of bytes, strings *)
(* read from the wire are sequences of character codes.                    *)
(***************************************************************************)
EXTENDS Integers, Sequences, FiniteSets, TLC

VARIABLES
    \* ---- CommunicationManager: correlator state
    device,           \* this.device: "null" or "dev"
    linkUp,           \* what device.isConnected() answers (native link state)
    listening,        \* an onDataReceived listener is registered
    disconnectPc,     \* disconnectDevice(): "idle" or "inTry" (between try and finally)
    packetCounter,    \* ProtocolService.packetCounter
    pendingRequests,  \* Map command -> request whose resolve/reject/timeout it holds (0: no entry)
    nextReq,          \* next unused request identity
    reqCommand,       \* request -> command key it was sent under
    reqPacketId,      \* request -> packetId stamped by encodePacket
    reqPc,            \* request -> "unused" | "awaitIsConnected" | "promised" | "thrown"
    reqOutcome,       \* request -> how the caller's promise settled ("none" while pending)
    timerArmed,       \* request -> its setTimeout handle is armed
    writeState,       \* request -> "none" | "inFlight" | "written" | "answered" | "failed"
    respInFlight,     \* frames the device has sent and the host has not yet decoded
    deliveryLog,      \* history: which response was handed to which request's resolver
    \* ---- CommunicationManager: reassembler state
    responseBuffer,   \* this.responseBuffer
    delivered,        \* history: the ParsedResponses handed to handleParsedResponse, in order
    extracted,        \* history: the packetBuffer slices cut out of responseBuffer, in order
    rxChunks,         \* chunks the transport has still to deliver
    rxScenario,       \* what the transport is going to deliver (fixed at Init)
    \* ---- codec and dispatcher functions applied to drawn arguments
    args,             \* the arguments of the call under study (fixed at Init)
    result,           \* the values the calls have returned so far, in order
    \* ---- device (MCU) state of the stateful device modules
    mcu,              \* the globals of the device module under study
    \* ---- BluetoothManager: connection bookkeeping for one device address
    bluetooth         \* activeConnections, the connect calls under way and the link

corrVars == <<device, linkUp, listening, disconnectPc, packetCounter, pendingRequests,
              nextReq, reqCommand, reqPacketId, reqPc, reqOutcome, timerArmed,
              writeState, respInFlight, deliveryLog>>
rxVars == <<responseBuffer, delivered, extracted, rxChunks, rxScenario>>
fnVars == <<args, result, mcu, bluetooth>>
vars == <<corrVars, rxVars, fnVars>>

---------------------------------------------------------------------------
(* Bounds of the model *)

\* number of sendRequest calls explored
MaxRequests == 3
\* number of UART errors explored in one run
MaxUartErrors == 1
\* number of requests and readings in one run of the alarm configuration
MaxAlarmSteps == 3
\* number of connect calls and of cancelConnection calls explored
MaxConnectCalls == 2
MaxCancels == 2
\* longest run of marker-free garbage fed to the reassembler
MaxGarbageLen == 17
\* length of a filler chunk of a flood, and number of filler chunks fed
FloodChunkLen == 100
MaxFloodChunks == 7

---------------------------------------------------------------------------
(* Program constants *)

MAX_PACKET_NUMBER == 127
START_BYTES == <<170, 85>>
END_BYTES == <<85, 170>>
VERSION == 2
HOST_REQUEST == 0
DEVICE_RESPONSE == 17
DEVICE_ERROR == 31
STATUS_OK == 0
STATUS_INTERNAL_ERROR == 255
ERROR_CORRUPT == 1
ERROR_UNKNOWN == 255
\* the packet number the device gives its response frames
SlavePacketId == 32768
MinPacketLength == 16
LengthOffset == 10

\* character codes of the strings that travel on the wire
TagIN == <<73, 78>>
TagST == <<83, 84>>
TagDA == <<68, 65>>
TagEC == <<69, 67>>
TagED == <<69, 68>>
TagT  == <<84, 32>>
CmdPing == <<112, 105, 110, 103>>
CmdTemp == <<116, 101, 109, 112>>

---------------------------------------------------------------------------
(* Byte helpers *)

Byte == 0..255

\* Uint8Array.slice(from, to) with 0-based, end-exclusive indices
Slice(b, from, to) == SubSeq(b, from + 1, IF to > Len(b) THEN Len(b) ELSE to)

\* DataView.getUint16(off, true)
U16LE(b, off) == b[off + 1] + 256 * b[off + 2]

\* A 32-bit JavaScript number is the pair <<hi, lo>> standing for hi * 65536 + lo,
\* lo in 0..65535; hi is in 0..65535 for an unsigned value and in -32768..32767 for
\* an int32 (the model checker's integers are 32 bits wide themselves).
\* DataView.getUint32(off, true)
U32LE(b, off) == <<b[off + 3] + 256 * b[off + 4], b[off + 1] + 256 * b[off + 2]>>

\* DataView.setUint16(_, v, true): ToUint16 of v, little-endian
Bytes16LE(v) == <<(v % 65536) % 256, (v % 65536) \div 256>>

\* DataView.setUint32(_, w, true): ToUint32 of w, little-endian
Bytes32LE(w) ==
    LET hi == w[1] % 65536
    IN <<w[2] % 256, w[2] \div 256, hi % 256, hi \div 256>>

\* bit k of the exclusive or of two bytes
XorBit(a, b, k) == (((a \div k) % 2) + ((b \div k) % 2)) % 2

\* a ^ b on bytes
BitXor(a, b) ==
    XorBit(a, b, 1) + 2 * XorBit(a, b, 2) + 4 * XorBit(a, b, 4) + 8 * XorBit(a, b, 8)
    + 16 * XorBit(a, b, 16) + 32 * XorBit(a, b, 32) + 64 * XorBit(a, b, 64)
    + 128 * XorBit(a, b, 128)

\* exclusive or of two 32-bit patterns held as four bytes, most significant first
Xor4(x, y) == <<BitXor(x[1], y[1]), BitXor(x[2], y[2]), BitXor(x[3], y[3]),
                BitXor(x[4], y[4])>>

\* x << 1 on a 32-bit pattern held as four bytes, most significant first
Shl1(x) == <<((x[1] * 2) % 256) + (x[2] \div 128), ((x[2] * 2) % 256) + (x[3] \div 128),
             ((x[3] * 2) % 256) + (x[4] \div 128), (x[4] * 2) % 256>>

\* the int32 a JavaScript bitwise operator returns for a 32-bit pattern
ToInt32(x) ==
    LET hi == x[1] * 256 + x[2]
    IN <<IF hi >= 32768 THEN hi - 65536 ELSE hi, x[3] * 256 + x[4]>>

---------------------------------------------------------------------------
(* ProtocolService: CRC32 *)

\* 0x04C11DB7
Polynomial == <<4, 193, 29, 183>>

RECURSIVE crcTableEntry(_, _)
crcTableEntry(crc, j) ==
    IF j = 0 THEN crc
    ELSE IF crc[1] >= 128
         THEN crcTableEntry(Xor4(Shl1(crc), Polynomial), j - 1)
         ELSE crcTableEntry(Shl1(crc), j - 1)

crc32Table == [i \in 0..255 |-> crcTableEntry(<<i, 0, 0, 0>>, 8)]

RECURSIVE crcLoop(_, _, _)
crcLoop(data, i, crc) ==
    IF i > Len(data) THEN crc
    ELSE LET index == BitXor(crc[1], data[i])
         IN \* the test evaluates index (and with it crc) before the next round
            IF index \in DOMAIN crc32Table
            THEN crcLoop(data, i + 1, Xor4(<<crc[2], crc[3], crc[4], 0>>, crc32Table[index]))
            ELSE crc

\* returns crc ^ 0xFFFFFFFF, which JavaScript evaluates to a signed int32
calculateCRC32(data) ==
    ToInt32(Xor4(crcLoop(data, 1, <<255, 255, 255, 255>>), <<255, 255, 255, 255>>))

---------------------------------------------------------------------------
(* ProtocolService: values carried by TLV fields and parsed responses.     *)
(* A JavaScript value is the pair <<its kind, a sequence holding it>>.     *)

Undefined == <<"undefined", <<>>>>
Number(n) == <<"number", <<n>>>>
\* a float32 is kept as the four bytes getFloat32 reads, a uint64 as its eight bytes
Float32(bytes) == <<"float32", bytes>>
Uint64(bytes) == <<"uint64", bytes>>
String(codes) == <<"string", codes>>
Array(items) == <<"array", items>>
Object(pairs) == <<"object", pairs>>

\* JavaScript truthiness, as used by `a || b`
Truthy(x) ==
    CASE x[1] = "undefined" -> FALSE
      [] x[1] = "number" -> x[2][1] # 0
      [] x[1] = "string" -> x[2] # <<>>
      [] OTHER -> TRUE

\* new TextDecoder().decode(bytes) for code points below 0x800: an ASCII byte is its
\* own code point, a lead byte C2..DF with its continuation byte is one code point,
\* and a byte that starts no well-formed sequence decodes to U+FFFD
TextDecode(bytes) ==
    LET dec[k \in 1..(Len(bytes) + 1)] ==
            IF k > Len(bytes) THEN <<>>
            ELSE IF bytes[k] < 128 THEN <<bytes[k]>> \o dec[k + 1]
            ELSE IF /\ bytes[k] >= 194 /\ bytes[k] <= 223 /\ k < Len(bytes)
                    /\ bytes[k + 1] >= 128 /\ bytes[k + 1] <= 191
            THEN <<(bytes[k] - 192) * 64 + (bytes[k + 1] - 128)>> \o dec[k + 2]
            ELSE <<65533>> \o dec[k + 1]
    IN dec[1]

Float32Tags == {<<84, 32>>, <<76, 32>>, <<72, 32>>}
Uint8Tags == {<<83, 84>>, <<69, 67>>, <<89, 89>>, <<77, 77>>, <<68, 68>>, <<87, 75>>,
              <<72, 72>>, <<83, 83>>, <<73, 68>>}
Uint16Tags == {<<77, 88>>}
Uint64Tags == {<<84, 83>>, <<84, 49>>, <<84, 50>>}
NestedTags == {<<68, 65>>, <<65, 76>>, <<76, 71>>, <<73, 84>>}

\* the bytes encodeTLV lays out for a tag and its value bytes
tlvBytes(tag, valueBytes) == tag \o Bytes16LE(Len(valueBytes)) \o valueBytes

RECURSIVE decodeTLV(_, _)
RECURSIVE decodeTLVs(_, _, _)

\* decodeTLV(data, offset): [err |-> "" and the field and nextOffset, or the error thrown]
decodeTLV(data, offset) ==
    IF offset + 4 > Len(data) THEN [err |-> "TLV data too short for header"]
    ELSE LET tag == <<data[offset + 1], data[offset + 2]>>
             length == U16LE(data, offset + 2)
         IN IF offset + 4 + length > Len(data) THEN [err |-> "TLV data too short for value"]
            ELSE LET valueBytes == Slice(data, offset + 4, offset + 4 + length)
                     ok(value) == [err |-> "", field |-> [tag |-> tag, value |-> value],
                                   nextOffset |-> offset + 4 + length]
                 IN CASE tag \in Float32Tags ->
                           IF length < 4 THEN [err |-> "RangeError"]
                           ELSE ok(Float32(SubSeq(valueBytes, 1, 4)))
                      [] tag \in Uint8Tags ->
                           IF length = 0 THEN ok(Undefined) ELSE ok(Number(valueBytes[1]))
                      [] tag \in Uint16Tags ->
                           IF length < 2 THEN [err |-> "RangeError"]
                           ELSE ok(Number(U16LE(valueBytes, 0)))
                      [] tag \in Uint64Tags ->
                           IF length < 8 THEN [err |-> "RangeError"]
                           ELSE ok(Uint64(SubSeq(valueBytes, 1, 8)))
                      [] tag \in NestedTags ->
                           LET nested == decodeTLVs(valueBytes, 0, <<>>)
                           IN IF nested.err # "" THEN [err |-> nested.err]
                              ELSE ok(Array(nested.fields))
                      [] OTHER -> ok(String(TextDecode(valueBytes)))

\* the loops `while (offset < bytes.length) decodeTLV(bytes, offset)`
decodeTLVs(bytes, offset, acc) ==
    IF offset >= Len(bytes) THEN [err |-> "", fields |-> acc]
    ELSE LET r == decodeTLV(bytes, offset)
         IN IF r.err # "" THEN [err |-> r.err]
            ELSE decodeTLVs(bytes, r.nextOffset, Append(acc, r.field))

---------------------------------------------------------------------------
(* ProtocolService: frame codec *)

\* the part of encodePacket that lays a frame out around its encoded payload
packetBytes(type, packetNumber, responseNumber, dataBuffer) ==
    LET crcData == <<VERSION, type>> \o Bytes16LE(packetNumber) \o Bytes16LE(responseNumber)
                   \o Bytes16LE(Len(dataBuffer)) \o dataBuffer
        crc32 == calculateCRC32(crcData)
    IN START_BYTES \o <<VERSION, type>> \o Bytes16LE(packetNumber)
       \o Bytes16LE(responseNumber) \o Bytes16LE(Len(dataBuffer)) \o dataBuffer
       \o Bytes32LE(crc32) \o END_BYTES

\* decodePacket(buffer): [err |-> "" and the ProtocolPacket, or the error thrown]
decodePacket(buffer) ==
    IF Len(buffer) < 16 THEN [err |-> "Packet too short"]
    ELSE IF buffer[1] # START_BYTES[1] \/ buffer[2] # START_BYTES[2]
    THEN [err |-> "Invalid start bytes"]
    ELSE LET version == buffer[3]
             type == buffer[4]
             packetNumber == U16LE(buffer, 4)
             responseNumber == U16LE(buffer, 6)
             dataLength == U16LE(buffer, 8)
         IN IF Len(buffer) < 10 + dataLength + 4 + 2 THEN [err |-> "Packet length mismatch"]
            ELSE LET dataBuffer == Slice(buffer, 10, 10 + dataLength)
                     data == decodeTLVs(dataBuffer, 0, <<>>)
                     pos == 10 + dataLength
                     receivedCRC == U32LE(buffer, pos)
                     crcData == <<version, type>> \o Bytes16LE(packetNumber)
                                \o Bytes16LE(responseNumber) \o Bytes16LE(dataLength)
                                \o dataBuffer
                 IN IF data.err # "" THEN [err |-> data.err]
                    ELSE IF calculateCRC32(crcData) # receivedCRC
                    THEN [err |-> "CRC32 mismatch"]
                    ELSE IF buffer[pos + 5] # END_BYTES[1] \/ buffer[pos + 6] # END_BYTES[2]
                    THEN [err |-> "Invalid end bytes"]
                    ELSE [err |-> "", version |-> version, type |-> type,
                          packetNumber |-> packetNumber,
                          responseNumber |-> responseNumber, data |-> data.fields]

\* array.find(field => field.tag === tag)?.value
findTLVValue(tlvArray, tag) ==
    IF tlvArray[1] # "array" THEN Undefined
    ELSE LET fields == tlvArray[2]
             hits == {k \in 1..Len(fields) : fields[k].tag = tag}
         IN IF hits = {} THEN Undefined
            ELSE fields[CHOOSE k \in hits : \A m \in hits : k <= m].value

ParsedResponse(success, command, status, data, error) ==
    [success |-> success, command |-> command, status |-> status, data |-> data,
     error |-> error]

\* the switch (command) of parseResponse
responseData(command, dataContent) ==
    LET get(name) == findTLVValue(dataContent, name)
        items(list, f(_)) == Array([k \in 1..Len(list[2]) |-> f(list[2][k].value)])
        alarm(itemData) == Object(<<<<"id", findTLVValue(itemData, <<73, 68>>)>>,
                                    <<"lowTemp", findTLVValue(itemData, <<76, 32>>)>>,
                                    <<"highTemp", findTLVValue(itemData, <<72, 32>>)>>>>)
        log(itemData) == Object(<<<<"timestamp", findTLVValue(itemData, <<84, 83>>)>>,
                                  <<"temperature", findTLVValue(itemData, <<84, 32>>)>>>>)
    IN CASE command = String(CmdPing) -> Object(<<<<"ping", String(<<112, 111, 110, 103>>)>>>>)
         [] command = String(CmdTemp) -> Object(<<<<"temperature", get(TagT)>>>>)
         [] command = String(<<103, 100, 97, 116>>) ->
              Object(<<<<"date", Object(<<<<"year", get(<<89, 89>>)>>, <<"month", get(<<77, 77>>)>>,
                                          <<"day", get(<<68, 68>>)>>, <<"weekday", get(<<87, 75>>)>>>>)>>>>)
         [] command = String(<<103, 116, 105, 109>>) ->
              Object(<<<<"time", Object(<<<<"hour", get(<<72, 72>>)>>, <<"minute", get(<<77, 77>>)>>,
                                          <<"second", get(<<83, 83>>)>>>>)>>>>)
         [] command = String(<<103, 97, 108, 109>>) ->
              LET alarmArray == get(<<65, 76>>)
              IN Object(<<<<"alarms", IF alarmArray[1] = "array" THEN items(alarmArray, alarm)
                                      ELSE Array(<<>>)>>>>)
         [] command = String(<<103, 108, 111, 103>>) ->
              LET logArray == get(<<76, 71>>)
              IN Object(<<<<"logs", IF logArray[1] = "array" THEN items(logArray, log)
                                    ELSE Array(<<>>)>>>>)
         [] command = String(<<115, 108, 101, 100>>) -> Object(<<<<"led", String(<<115, 101, 116>>)>>>>)
         [] command = String(<<114, 108, 101, 100>>) ->
              Object(<<<<"led", String(<<114, 101, 115, 101, 116>>)>>>>)
         [] command = String(<<115, 98, 122, 114>>) -> Object(<<<<"buzzer", String(<<115, 101, 116>>)>>>>)
         [] command = String(<<114, 98, 122, 114>>) ->
              Object(<<<<"buzzer", String(<<114, 101, 115, 101, 116>>)>>>>)
         [] OTHER -> Object(<<>>)

\* the response parseResponse's catch clause builds from a thrown error
CorruptResponse(err) ==
    ParsedResponse(FALSE, Undefined, Undefined, Undefined,
                   Object(<<<<"code", Number(ERROR_CORRUPT)>>,
                            <<"description", <<"parse error", <<err>>>>>>>>))

\* a variant of parseResponse without its catch clause: the error decodePacket
\* throws leaves the function as it is
parseResponseWithoutCatch(buffer) ==
    LET packet == decodePacket(buffer)
    IN IF packet.err # ""
       THEN ParsedResponse(FALSE, Undefined, Undefined, Undefined, <<"thrown", <<packet.err>>>>)
       ELSE ParsedResponse(TRUE, Undefined, Undefined, Undefined, Undefined)

\* parseResponse(buffer): never throws, a decode error becomes a CORRUPT response
parseResponse(buffer) ==
    LET packet == decodePacket(buffer)
    IN IF packet.err # ""
       THEN ParsedResponse(FALSE, Undefined, Undefined, Undefined,
                           Object(<<<<"code", Number(ERROR_CORRUPT)>>,
                                    <<"description", <<"parse error", <<packet.err>>>>>>>>))
       ELSE LET top == Array(packet.data)
            IN IF packet.type = DEVICE_ERROR
               THEN LET errorCode == findTLVValue(top, TagEC)
                    IN ParsedResponse(FALSE, Undefined, Undefined, Undefined,
                           Object(<<<<"code", IF Truthy(errorCode) THEN errorCode
                                              ELSE Number(ERROR_UNKNOWN)>>,
                                    <<"description", findTLVValue(top, TagED)>>>>))
               ELSE LET command == findTLVValue(top, TagIN)
                        status == findTLVValue(top, TagST)
                        dataField == findTLVValue(top, TagDA)
                        dataContent == IF Truthy(dataField) THEN dataField ELSE Array(<<>>)
                    IN IF status # Number(STATUS_OK)
                       THEN ParsedResponse(FALSE, command, status, Undefined,
                               Object(<<<<"code", IF Truthy(status) THEN status
                                                  ELSE Number(STATUS_INTERNAL_ERROR)>>>>))
                       ELSE ParsedResponse(TRUE, command, status,
                                           responseData(command, dataContent), Undefined)

---------------------------------------------------------------------------
(* ProtocolService: encoder *)

\* a variant of getNextPacketNumber that wraps one value early
getNextPacketNumberWrapsEarly(counter) == (counter + 1) % MAX_PACKET_NUMBER

\* getNextPacketNumber()
getNextPacketNumber(counter) == (counter + 1) % (MAX_PACKET_NUMBER + 1)

\* new TextEncoder().encode(value): UTF-8 of code points below 0x800
TextEncode(codes) ==
    LET utf8(c) == IF c < 128 THEN <<c>> ELSE <<192 + (c \div 64), 128 + (c % 64)>>
        enc[k \in 0..Len(codes)] == IF k = 0 THEN <<>> ELSE enc[k - 1] \o utf8(codes[k])
    IN enc[Len(codes)]

\* setUint32(0, value, true) of a non-negative integer
BytesU32LE(n) == <<n % 256, (n \div 256) % 256, (n \div 65536) % 256, (n \div 16777216) % 256>>

RECURSIVE encodeTLV(_, _)
RECURSIVE encodeTLVs(_)
\* encodeTLV(tag, value); a number that is no integer arrives as the Float32 it is
\* written as
encodeTLV(tag, value) ==
    LET valueBytes ==
            CASE value[1] = "string" -> TextEncode(value[2])
              [] value[1] = "number" ->
                   LET n == value[2][1]
                   IN IF n <= 255 THEN <<n % 256>>
                      ELSE IF n <= 65535 THEN Bytes16LE(n)
                      ELSE BytesU32LE(n)
              [] value[1] = "float32" -> value[2]
              [] value[1] = "array" -> encodeTLVs(value[2])
    IN tlvBytes(<<tag[1] % 256, tag[2] % 256>>, valueBytes)

\* the concatenation of the encodings of a list of fields
encodeTLVs(fields) ==
    IF fields = <<>> THEN <<>>
    ELSE encodeTLV(Head(fields).tag, Head(fields).value) \o encodeTLVs(Tail(fields))

\* encodePacket(type, data, responseNumber) with packetCounter = counter before the call
encodePacket(counter, type, data, responseNumber) ==
    packetBytes(type, getNextPacketNumber(counter), responseNumber, encodeTLVs(data))

Field(tag, value) == [tag |-> tag, value |-> value]

\* the payloads of createPingRequest, createGetTempRequest, createSetRTCDateRequest,
\* createSetAlarmsRequest and createGetLogRequest
HostPayloads ==
    {<<Field(TagIN, String(CmdPing)), Field(TagDA, Array(<<>>))>>,
     <<Field(TagIN, String(CmdTemp)), Field(TagDA, Array(<<>>))>>,
     <<Field(TagIN, String(<<115, 100, 97, 116>>)),
       Field(TagDA, Array(<<Field(<<89, 89>>, Number(25)), Field(<<77, 77>>, Number(6)),
                            Field(<<68, 68>>, Number(15)), Field(<<87, 75>>, Number(7))>>))>>,
     <<Field(TagIN, String(<<115, 97, 108, 109>>)),
       Field(TagDA, Array(<<Field(<<65, 76>>, Array(<<
           Field(<<73, 84>>, Array(<<Field(<<73, 68>>, Number(1)),
                                     Field(<<76, 32>>, Float32(<<0, 0, 164, 65>>)),
                                     Field(<<72, 32>>, Float32(<<0, 0, 244, 65>>))>>))>>))>>))>>,
     <<Field(TagIN, String(<<103, 108, 111, 103>>)),
       Field(TagDA, Array(<<Field(<<84, 49>>, Number(1700000000)),
                            Field(<<84, 50>>, Number(1700003600)),
                            Field(<<77, 88>>, Number(10))>>))>>}

\* the arguments encodePacket is called with
EncodeArgs ==
    {[op |-> "encodePacket", counter |-> k, type |-> t, data |-> d, responseNumber |-> r] :
        k \in 0..MAX_PACKET_NUMBER, t \in {HOST_REQUEST, DEVICE_RESPONSE},
        d \in HostPayloads, r \in {0, 1}}

\* encodePacket applied to the arguments
EncodePacket ==
    /\ args.op = "encodePacket"
    /\ result = <<>>
    /\ result' = <<encodePacket(args.counter, args.type, args.data, args.responseNumber)>>
    /\ UNCHANGED <<args, mcu, bluetooth, corrVars, rxVars>>

\* decodePacket applied to the frame encodePacket returned
DecodePacket ==
    /\ args.op = "encodePacket"
    /\ Len(result) = 1
    /\ result' = Append(result, decodePacket(result[1]))
    /\ UNCHANGED <<args, mcu, bluetooth, corrVars, rxVars>>

\* number of packet counter values whose frames are damaged bit by bit
MaxFlipCounter == 3

\* the frames that are damaged: the requests whose payload the TLV decoder reads back
FlipArgs == {a \in EncodeArgs : /\ a.counter <= MaxFlipCounter
                                /\ a.type = HOST_REQUEST
                                /\ a.responseNumber = 0
                                /\ decodeTLVs(encodeTLVs(a.data), 0, <<>>).err = ""}

\* one bit of the payload region of the encoded frame is inverted on the way, and
\* decodePacket is applied to the damaged frame
DecodeFlipped ==
    /\ args.op = "encodePacket"
    /\ Len(result) = 1
    /\ \E k \in 10..(10 + U16LE(result[1], 8) - 1) : \E m \in {1, 2, 4, 8, 16, 32, 64, 128} :
         LET damaged == [result[1] EXCEPT ![k + 1] = BitXor(result[1][k + 1], m)]
         IN result' = <<result[1], damaged, decodePacket(damaged)>>
    /\ UNCHANGED <<args, mcu, bluetooth, corrVars, rxVars>>

\* values given to encodeTLV, by the type the decoder's table gives their tag:
\* u8, u16, u64 (kept below 2^31), float32 (22.5, -0.5 and the integral 20.0, a
\* JavaScript number that is an integer), strings and nested lists
TlvArgs ==
    {[op |-> "encodeTLV", tag |-> t, value |-> Number(n)] :
        t \in Uint8Tags, n \in {0, 7, 255}}
    \cup {[op |-> "encodeTLV", tag |-> t, value |-> Number(n)] :
        t \in Uint16Tags, n \in {10, 255, 256, 65535}}
    \cup {[op |-> "encodeTLV", tag |-> t, value |-> Number(n)] :
        t \in Uint64Tags, n \in {10, 1000, 1700000000}}
    \cup {[op |-> "encodeTLV", tag |-> t, value |-> v] :
        t \in Float32Tags,
        v \in {Float32(<<0, 0, 180, 65>>), Float32(<<0, 0, 0, 191>>), Number(20)}}
    \cup {[op |-> "encodeTLV", tag |-> t, value |-> String(s)] :
        t \in {TagIN, TagED}, s \in {<<>>, CmdPing, <<111, 107>>, <<233>>}}
    \cup {[op |-> "encodeTLV", tag |-> t, value |-> Array(a)] :
        t \in NestedTags,
        a \in {<<>>, <<Field(TagST, Number(0))>>,
               <<Field(TagIN, String(CmdTemp)), Field(TagT, Float32(<<0, 0, 180, 65>>))>>}}

\* encodeTLV applied to the tag and the value
EncodeTlv ==
    /\ args.op = "encodeTLV"
    /\ result = <<>>
    /\ result' = <<encodeTLV(args.tag, args.value)>>
    /\ UNCHANGED <<args, mcu, bluetooth, corrVars, rxVars>>

\* decodeTLV applied to the bytes encodeTLV returned
DecodeTlv ==
    /\ args.op = "encodeTLV"
    /\ Len(result) = 1
    /\ result' = Append(result, decodeTLV(result[1], 0))
    /\ UNCHANGED <<args, mcu, bluetooth, corrVars, rxVars>>

\* the payloads of the requests encoded one after the other
CounterPayloads ==
    {<<Field(TagIN, String(CmdPing)), Field(TagDA, Array(<<>>))>>,
     <<Field(TagIN, String(CmdTemp)), Field(TagDA, Array(<<>>))>>}

\* one more call of encodePacket on the same ProtocolService: the counter moves on,
\* the frame is returned; result keeps the last two frames
EncodeNext ==
    /\ args.op = "encodeCalls"
    /\ \E d \in CounterPayloads :
          result' = (IF Len(result) = 2 THEN <<result[2]>> ELSE result)
                    \o <<encodePacket(packetCounter, HOST_REQUEST, d, 0)>>
    /\ packetCounter' = getNextPacketNumber(packetCounter)
    /\ UNCHANGED <<device, linkUp, listening, disconnectPc, pendingRequests, nextReq,
                   reqCommand, reqPacketId, reqPc, reqOutcome, timerArmed, writeState,
                   respInFlight, deliveryLog, args, mcu, bluetooth,
                   rxVars>>

---------------------------------------------------------------------------
(* Device (MCU): protocol.c - byte stuffing, CRC, frame builder and parser *)

MAX_PACKET_SIZE == 512
ESCAPE_BYTE == 0
\* sizeof(PacketHeader), sizeof(uint32_t)
HeaderSize == 8
CrcSize == 4

RECURSIVE escapeLoop(_, _, _, _)
\* the for loop of escape_data: -1, or the bytes written (out_pos is their number)
escapeLoop(input, i, out, output_size) ==
    IF i > Len(input) \/ Len(out) >= output_size THEN [ret |-> Len(out), out |-> out]
    ELSE IF input[i] = 170 \/ input[i] = 85
    THEN IF Len(out) + 1 >= output_size THEN [ret |-> -1, out |-> out]
         ELSE escapeLoop(input, i + 1, out \o <<input[i], ESCAPE_BYTE>>, output_size)
    ELSE escapeLoop(input, i + 1, Append(out, input[i]), output_size)

\* a variant of escape_data that stuffs a zero after 0xAA only
escape_dataOnlyAA(input, output_size) ==
    LET out[k \in 0..Len(input)] ==
            IF k = 0 THEN <<>>
            ELSE out[k - 1] \o (IF input[k] = 170 THEN <<170, 0>> ELSE <<input[k]>>)
    IN [ret |-> Len(out[Len(input)]), out |-> out[Len(input)]]

escape_data(input, output_size) == escapeLoop(input, 1, <<>>, output_size)

\* a variant of unescape_data that copies every byte, stuffing bytes included
unescape_dataKeepsStuffing(input, output_size) == [ret |-> Len(input), out |-> input]

RECURSIVE unescapeLoop(_, _, _, _)
\* the for loop of unescape_data
unescapeLoop(input, i, out, output_size) ==
    IF i > Len(input) \/ Len(out) >= output_size THEN [ret |-> Len(out), out |-> out]
    ELSE LET byte == input[i]
             hasNext == i + 1 <= Len(input)
         IN IF (byte = 170 \/ byte = 85) /\ hasNext /\ input[i + 1] = ESCAPE_BYTE
            THEN unescapeLoop(input, i + 2, Append(out, byte), output_size)
            ELSE IF \/ (byte = 170 /\ hasNext /\ input[i + 1] = 85)
                    \/ (byte = 85 /\ hasNext /\ input[i + 1] = 170)
            THEN [ret |-> -1, out |-> out]
            ELSE unescapeLoop(input, i + 1, Append(out, byte), output_size)

unescape_data(input, output_size) == unescapeLoop(input, 1, <<>>, output_size)

RECURSIVE boundaryLoop(_, _, _, _)
\* the for loop of find_packet_boundaries; i is the 0-based loop index
boundaryLoop(buffer, i, start_found, start_pos) ==
    IF i >= Len(buffer) - 1 THEN [found |-> FALSE]
    ELSE IF ~start_found /\ buffer[i + 1] = START_BYTES[1] /\ buffer[i + 2] = START_BYTES[2]
    THEN boundaryLoop(buffer, i + 2, TRUE, i + 2)
    ELSE IF start_found /\ buffer[i + 1] = END_BYTES[1] /\ buffer[i + 2] = END_BYTES[2]
    THEN LET is_escaped == i > 0 /\ buffer[i] = ESCAPE_BYTE /\ i > 1 /\ buffer[i - 1] = 85
         IN IF ~is_escaped THEN [found |-> TRUE, start_pos |-> start_pos, end_pos |-> i]
            ELSE boundaryLoop(buffer, i + 1, start_found, start_pos)
    ELSE boundaryLoop(buffer, i + 1, start_found, start_pos)

find_packet_boundaries(buffer) == boundaryLoop(buffer, 0, FALSE, 0)

\* the bytes of the CRC unit's 32-bit words in the order the unit shifts them in
\* (a word read from little-endian memory enters most significant byte first)
WordOrder(bytes) ==
    [k \in 1..Len(bytes) |-> bytes[4 * ((k - 1) \div 4) + (4 - ((k - 1) % 4))]]

RECURSIVE SumBytes(_)
SumBytes(bytes) == IF bytes = <<>> THEN 0 ELSE Head(bytes) + SumBytes(Tail(bytes))

\* calculate_crc32(data, length), as the four bytes of the uint32_t in memory.
\*   mode "sum":  hcrc.Instance == NULL, the byte sum
\*   mode "hw":   HAL_CRC_Calculate over (length + 3) / 4 words; when length is not
\*                a multiple of 4 the last word takes in the bytes that follow the
\*                data in memory
\*   mode "host": the CRC function of the host's ProtocolService
calculate_crc32(data, following, mode) ==
    CASE mode = "sum" -> BytesU32LE(SumBytes(data))
      [] mode = "hw" ->
           LET extra == (4 - (Len(data) % 4)) % 4
               crc == crcLoop(WordOrder(data \o SubSeq(following, 1, extra)), 1,
                              <<255, 255, 255, 255>>)
           IN <<crc[4], crc[3], crc[2], crc[1]>>
      [] mode = "host" -> Bytes32LE(calculateCRC32(data))

\* the packed PacketHeader in memory
headerBytes(type, packet_id, response_id, data_len) ==
    <<VERSION, type % 256>> \o Bytes16LE(packet_id) \o Bytes16LE(response_id)
    \o Bytes16LE(data_len)

\* build_packet(type, packet_id, response_id, data, data_len, output, output_size);
\* stale is what the uninitialised temp_buffer holds behind header and data
build_packet(type, packet_id, response_id, data, output_size, stale, mode) ==
    IF output_size < 16 + Len(data) * 2 THEN [ret |-> -1, out |-> <<>>]
    ELSE LET temp == headerBytes(type, packet_id, response_id, Len(data)) \o data
             crc == calculate_crc32(temp, stale, mode)
             escaped == escape_data(temp \o crc, output_size - 2 - 2)
         IN IF escaped.ret < 0 THEN [ret |-> -1, out |-> <<>>]
            ELSE IF 2 + escaped.ret + 2 > output_size THEN [ret |-> -1, out |-> <<>>]
            ELSE [ret |-> 2 + escaped.ret + 2,
                  out |-> START_BYTES \o escaped.out \o END_BYTES]

ParseFailed == [ret |-> -1]

\* parse_packet(buffer, buffer_len, header, data, data_size)
parse_packet(buffer, data_size, mode) ==
    LET bounds == find_packet_boundaries(buffer)
    IN IF ~bounds.found THEN ParseFailed
       ELSE LET un == unescape_data(Slice(buffer, bounds.start_pos, bounds.end_pos),
                                    MAX_PACKET_SIZE)
            IN IF un.ret < 0 THEN ParseFailed
               ELSE IF un.ret < HeaderSize + CrcSize THEN ParseFailed
               ELSE LET temp == un.out
                        data_length == U16LE(temp, 6)
                    IN IF temp[1] # VERSION THEN ParseFailed
                       ELSE IF un.ret # HeaderSize + data_length + CrcSize THEN ParseFailed
                       ELSE LET received_crc == Slice(temp, un.ret - CrcSize, un.ret)
                                calculated_crc ==
                                    calculate_crc32(Slice(temp, 0, un.ret - CrcSize),
                                                    received_crc, mode)
                            IN IF received_crc # calculated_crc THEN ParseFailed
                               ELSE IF data_length > 0 /\ data_size < data_length
                               THEN ParseFailed
                               ELSE [ret |-> data_length,
                                     header |-> [version |-> temp[1], type |-> temp[2],
                                                 packet_id |-> U16LE(temp, 2),
                                                 response_id |-> U16LE(temp, 4),
                                                 data_length |-> data_length],
                                     data |-> Slice(temp, HeaderSize,
                                                    HeaderSize + data_length)]

\* longest byte sequence handed to escape_data
MaxStuffLen == 4

RECURSIVE SeqsUpTo(_, _)
\* the sequences over S of length at most n
SeqsUpTo(S, n) ==
    IF n = 0 THEN {<<>>}
    ELSE LET shorter == SeqsUpTo(S, n - 1)
         IN shorter \cup {Append(q, x) : q \in shorter, x \in S}

\* the bytes the stuffing treats differently: the two marker bytes, the stuffing byte
\* and an ordinary byte
StuffBytes == {170, 85, ESCAPE_BYTE, 1}

StuffArgs == {[op |-> "escape_data", input |-> b] : b \in SeqsUpTo(StuffBytes, MaxStuffLen)}

\* escape_data applied to the input, with an output buffer of MAX_PACKET_SIZE bytes
EscapeData ==
    /\ args.op = "escape_data"
    /\ result = <<>>
    /\ result' = <<escape_data(args.input, MAX_PACKET_SIZE)>>
    /\ UNCHANGED <<args, mcu, bluetooth, corrVars, rxVars>>

\* unescape_data applied to what escape_data wrote
UnescapeData ==
    /\ args.op = "escape_data"
    /\ Len(result) = 1
    /\ result[1].ret >= 0
    /\ result' = Append(result, unescape_data(result[1].out, MAX_PACKET_SIZE))
    /\ UNCHANGED <<args, mcu, bluetooth, corrVars, rxVars>>

\* packet ids and response ids given to build_packet: an ordinary one, the device's
\* own, and ones whose bytes are marker bytes
DevPacketIds == {1, SlavePacketId, 85, 43605}
DevResponseIds == {0, 1, 21930}

\* payloads given to build_packet: every short sequence of the bytes the stuffing
\* treats differently, and two that fill whole 32-bit words
DevPayloads == SeqsUpTo(StuffBytes, 2) \cup {<<170, 85, ESCAPE_BYTE, 1>>, <<85, 170, 85, 170>>}

\* what the uninitialised bytes behind header and data may hold
StaleBytes == {<<0, 0, 0>>, <<204, 204, 204>>}

BuildArgs ==
    {[op |-> "build_packet", type |-> t, packet_id |-> p, response_id |-> r, data |-> d,
      mode |-> m, stale |-> st] :
        t \in {HOST_REQUEST, DEVICE_RESPONSE, DEVICE_ERROR}, p \in DevPacketIds,
        r \in DevResponseIds, d \in DevPayloads, m \in {"sum", "hw"}, st \in StaleBytes}

\* build_packet applied to the arguments, with an output buffer of MAX_PACKET_SIZE bytes
BuildPacket ==
    /\ args.op = "build_packet"
    /\ result = <<>>
    /\ result' = <<build_packet(args.type, args.packet_id, args.response_id, args.data,
                                MAX_PACKET_SIZE, args.stale, args.mode)>>
    /\ UNCHANGED <<args, mcu, bluetooth, corrVars, rxVars>>

\* parse_packet applied to the frame build_packet wrote
ParsePacket ==
    /\ args.op = "build_packet"
    /\ Len(result) = 1
    /\ result[1].ret >= 0
    /\ result' = Append(result, parse_packet(result[1].out, MAX_PACKET_SIZE, args.mode))
    /\ UNCHANGED <<args, mcu, bluetooth, corrVars, rxVars>>

\* the requests of the host whose frames are handed to the device's parser
RequestArgs ==
    {[op |-> "createRequest", counter |-> k, data |-> d] :
        k \in 0..MAX_PACKET_NUMBER, d \in HostPayloads}

\* a create...Request method: encodePacket(HOST_REQUEST, data) with responseNumber 0
CreateRequest ==
    /\ args.op = "createRequest"
    /\ result = <<>>
    /\ result' = <<encodePacket(args.counter, HOST_REQUEST, args.data, 0)>>
    /\ UNCHANGED <<args, mcu, bluetooth, corrVars, rxVars>>

\* the device's parse_packet applied to the request frame, its CRC function taken to
\* be the host's
ParseRequest ==
    /\ args.op = "createRequest"
    /\ Len(result) = 1
    /\ result' = Append(result, parse_packet(result[1], MAX_PACKET_SIZE, "host"))
    /\ UNCHANGED <<args, mcu, bluetooth, corrVars, rxVars>>

---------------------------------------------------------------------------
(* Device (MCU): protocol.c TLV helpers, command_handler.c, communication.c *)

STATUS_INVALID_PARAM == 1
STATUS_NOT_INITIALIZED == 2
STATUS_SENSOR_ERROR == 3
STATUS_STORAGE_ERROR == 4
ERROR_UNEXPECTED_RESP == 2
\* MAX_PACKET_SIZE - 16
MAX_DATA_SIZE == 496
\* sizeof(instruction) in process_command_packet
InstructionSize == 5
\* sizeof(error_data) in send_error_response
ErrorDataSize == 256
COMM_TX_BUFFER_SIZE == 1024
\* the value DS18B20_Get_Temp returns when the reading failed
TempReadFailed == -1000

TagYY == <<89, 89>>
TagMM == <<77, 77>>
TagDD == <<68, 68>>
TagWK == <<87, 75>>
TagHH == <<72, 72>>
TagSS == <<83, 83>>
TagAL == <<65, 76>>

CmdSdat == <<115, 100, 97, 116>>
CmdStim == <<115, 116, 105, 109>>
CmdSalm == <<115, 97, 108, 109>>

\* the command names of command_table, in table order
command_table ==
    <<CmdPing, CmdTemp, <<103, 100, 97, 116>>, <<103, 116, 105, 109>>, CmdSdat, CmdStim,
      <<103, 97, 108, 109>>, CmdSalm, <<103, 108, 111, 103>>, <<115, 108, 101, 100>>,
      <<114, 108, 101, 100>>, <<115, 98, 122, 114>>, <<114, 98, 122, 114>>>>

\* write_tlv_uint8(buffer, buffer_size, tag, value): the return value and the bytes
write_tlv_uint8(buffer_size, tag, value) ==
    IF buffer_size < 5 THEN [ret |-> -1, out |-> <<>>]
    ELSE [ret |-> 5, out |-> tag \o Bytes16LE(1) \o <<value % 256>>]

\* write_tlv_float32, the float given as the four bytes it has in memory
write_tlv_float32(buffer_size, tag, value) ==
    IF buffer_size < 8 THEN [ret |-> -1, out |-> <<>>]
    ELSE [ret |-> 8, out |-> tag \o Bytes16LE(4) \o value]

RECURSIVE strlen(_)
\* strlen of the characters held in an array: the bytes before the first NUL
strlen(str) == IF str = <<>> \/ Head(str) = 0 THEN 0 ELSE 1 + strlen(Tail(str))

write_tlv_string(buffer_size, tag, str) ==
    LET str_len == strlen(str)
    IN IF buffer_size < 4 + str_len THEN [ret |-> -1, out |-> <<>>]
       ELSE [ret |-> 4 + str_len, out |-> tag \o Bytes16LE(str_len) \o SubSeq(str, 1, str_len)]

write_tlv_raw(buffer_size, tag, data) ==
    IF buffer_size < 4 + Len(data) THEN [ret |-> -1, out |-> <<>>]
    ELSE [ret |-> 4 + Len(data), out |-> tag \o Bytes16LE(Len(data)) \o data]

\* what a read_tlv_ function hands back: its return value, the bytes it copied out,
\* whether the scan left the memory of the program, and reach, the number of bytes
\* from the start of the buffer that the scan read (the highest offset read, plus one)
TlvNotFound(reach) == [ret |-> -1, value |-> <<>>, fault |-> FALSE, reach |-> reach]
TlvFault(reach) == [ret |-> -1, value |-> <<>>, fault |-> TRUE, reach |-> reach]

RECURSIVE tlvScan(_, _, _, _, _, _, _)
\* the for loop the read_tlv_ functions share, for buffer_size >= 4: a TLV with the tag
\* is taken when its length is in lo..hi and it ends inside the buffer
tlvScan(buffer, buffer_size, tag, i, lo, hi, reach) ==
    IF i >= buffer_size - 4 THEN TlvNotFound(reach)
    ELSE LET length == U16LE(buffer, i + 2)
         IN IF /\ Slice(buffer, i, i + 2) = tag
               /\ length >= lo
               /\ length <= hi
               /\ i + 4 + length <= buffer_size
            THEN [ret |-> length, value |-> Slice(buffer, i + 4, i + 4 + length),
                  fault |-> FALSE, reach |-> i + 4 + length]
            ELSE tlvScan(buffer, buffer_size, tag, i + 4 + length, lo, hi, i + 4)

\* buffer_size - 4 is computed in size_t: for buffer_size < 4 it wraps, the first
\* pass of the loop reads the tag and the length at offsets 0..3 and the loop goes on
\* to walk the memory behind the buffer, where no TLV can be taken (i + 4 + length is
\* never <= buffer_size); beyond names what becomes of that walk, a bus fault
\* ("fault") or a return of -1 ("none")
tlvRead(buffer, buffer_size, tag, lo, hi, beyond) ==
    IF buffer_size < 4
    THEN IF beyond = "fault" THEN TlvFault(4) ELSE TlvNotFound(4)
    ELSE tlvScan(buffer, buffer_size, tag, 0, lo, hi, 0)

read_tlv_uint8(buffer, buffer_size, tag, beyond) ==
    tlvRead(buffer, buffer_size, tag, 1, 1, beyond)

read_tlv_string(buffer, buffer_size, tag, str_size, beyond) ==
    tlvRead(buffer, buffer_size, tag, 0, str_size - 1, beyond)

read_tlv_raw(buffer, buffer_size, tag, length, beyond) ==
    tlvRead(buffer, buffer_size, tag, 0, length, beyond)

\* the float a reading of the sensor becomes, (float)temp_raw / 10.0f, as the four
\* bytes it has in memory
TempFloat(temp_raw) ==
    CASE temp_raw = 255 -> <<0, 0, 204, 65>>
      [] temp_raw = 200 -> <<0, 0, 160, 65>>
      [] temp_raw = -5 -> <<0, 0, 0, 191>>

\* what a handler hands back: its return value, *status and the response_len bytes
\* it wrote, and whether it ran into a fault
Handled(ret, status, data) ==
    [called |-> TRUE, result |-> ret, status |-> status, data |-> data, fault |-> FALSE]
HandlerFault ==
    [called |-> TRUE, result |-> -1, status |-> STATUS_INTERNAL_ERROR, data |-> <<>>,
     fault |-> TRUE]
NotHandled ==
    [called |-> FALSE, result |-> -1, status |-> STATUS_INTERNAL_ERROR, data |-> <<>>,
     fault |-> FALSE]

handle_ping == Handled(0, STATUS_OK, <<>>)

\* dev.sensor_ok is DS18B20_Check() == 0, dev.temp_raw what DS18B20_Get_Temp returns
handle_get_temp(dev) ==
    IF ~dev.sensor_ok THEN Handled(-1, STATUS_SENSOR_ERROR, <<>>)
    ELSE IF dev.temp_raw = TempReadFailed THEN Handled(-1, STATUS_SENSOR_ERROR, <<>>)
    ELSE LET t == write_tlv_float32(MAX_DATA_SIZE, TagT, TempFloat(dev.temp_raw))
         IN IF t.ret < 0 THEN Handled(-1, STATUS_INTERNAL_ERROR, <<>>)
            ELSE Handled(0, STATUS_OK, t.out)

\* the parameter check of rtc_set_date
rtc_set_date(date) ==
    ~(\/ date.year > 99
      \/ date.month < 1 \/ date.month > 12
      \/ date.day < 1 \/ date.day > 31
      \/ date.weekday < 1 \/ date.weekday > 7)

\* the parameter check of rtc_set_time
rtc_set_time(time) == ~(time.hour > 23 \/ time.minute > 59 \/ time.second > 59)

\* dev.rtc_initialized is hrtc.Instance != NULL; the reads are chained with ||, so
\* the first one that fails ends them
handle_set_rtc_date(request_data, request_len, dev, beyond) ==
    IF ~dev.rtc_initialized THEN Handled(-1, STATUS_NOT_INITIALIZED, <<>>)
    ELSE LET yy == read_tlv_uint8(request_data, request_len, TagYY, beyond)
             mm == read_tlv_uint8(request_data, request_len, TagMM, beyond)
             dd == read_tlv_uint8(request_data, request_len, TagDD, beyond)
             wk == read_tlv_uint8(request_data, request_len, TagWK, beyond)
         IN IF yy.fault THEN HandlerFault
            ELSE IF yy.ret < 0 \/ mm.ret < 0 \/ dd.ret < 0 \/ wk.ret < 0
            THEN Handled(-1, STATUS_INVALID_PARAM, <<>>)
            ELSE IF ~rtc_set_date([year |-> yy.value[1], month |-> mm.value[1],
                                   day |-> dd.value[1], weekday |-> wk.value[1]])
            THEN Handled(-1, STATUS_INVALID_PARAM, <<>>)
            ELSE Handled(0, STATUS_OK, <<>>)

handle_set_rtc_time(request_data, request_len, dev, beyond) ==
    IF ~dev.rtc_initialized THEN Handled(-1, STATUS_NOT_INITIALIZED, <<>>)
    ELSE LET hh == read_tlv_uint8(request_data, request_len, TagHH, beyond)
             mm == read_tlv_uint8(request_data, request_len, TagMM, beyond)
             ss == read_tlv_uint8(request_data, request_len, TagSS, beyond)
         IN IF hh.fault THEN HandlerFault
            ELSE IF hh.ret < 0 \/ mm.ret < 0 \/ ss.ret < 0
            THEN Handled(-1, STATUS_INVALID_PARAM, <<>>)
            ELSE IF ~rtc_set_time([hour |-> hh.value[1], minute |-> mm.value[1],
                                   second |-> ss.value[1]])
            THEN Handled(-1, STATUS_INVALID_PARAM, <<>>)
            ELSE Handled(0, STATUS_OK, <<>>)

handle_set_alarms(request_data, request_len, beyond) ==
    LET al == read_tlv_raw(request_data, request_len, TagAL, MAX_DATA_SIZE, beyond)
    IN IF al.fault THEN HandlerFault
       ELSE IF al.ret < 0 THEN Handled(-1, STATUS_INVALID_PARAM, <<>>)
       ELSE Handled(0, STATUS_OK, <<>>)

\* the handlers of the command table that are modelled
ModelledCommands == {CmdPing, CmdTemp, CmdSdat, CmdStim, CmdSalm}

\* command_table[i].handler(request_data, request_data_len, response_data, ...)
handler(instruction, request_data, request_len, dev, beyond) ==
    CASE instruction = CmdPing -> handle_ping
      [] instruction = CmdTemp -> handle_get_temp(dev)
      [] instruction = CmdSdat -> handle_set_rtc_date(request_data, request_len, dev, beyond)
      [] instruction = CmdStim -> handle_set_rtc_time(request_data, request_len, dev, beyond)
      [] instruction = CmdSalm -> handle_set_alarms(request_data, request_len, beyond)

\* a variant of the dispatcher's treatment of the handler's outcome that keeps what
\* the handler wrote when it returned a negative value
afterHandlerKeepsStatus(h) == [status |-> h.status, response_data |-> h.data]

\* process_command_packet after the handler returned: a negative result replaces the
\* status by INTERNAL_ERROR and empties the response data
afterHandler(h) ==
    IF h.result < 0 THEN [status |-> STATUS_INTERNAL_ERROR, response_data |-> <<>>]
    ELSE [status |-> h.status, response_data |-> h.data]

\* what process_command_packet hands back: its return value, the response_packet
\* bytes, what the handler returned, and whether the call ran into a fault
Dispatched(ret, out, h) == [ret |-> ret, out |-> out, handler |-> h, fault |-> h.fault]

\* process_command_packet(packet_data, packet_len, response_packet, response_len,
\* response_id)
process_command_packet(packet_data, packet_len, response_id, dev, beyond, stale, mode) ==
    LET in == read_tlv_string(packet_data, packet_len, TagIN, InstructionSize, beyond)
        instruction == SubSeq(in.value, 1, strlen(in.value))
        known == \E k \in 1..Len(command_table) : command_table[k] = instruction
    IN IF in.fault THEN [ret |-> -1, out |-> <<>>, handler |-> NotHandled, fault |-> TRUE]
       ELSE IF in.ret < 0 THEN Dispatched(-1, <<>>, NotHandled)
       ELSE IF ~known THEN Dispatched(-1, <<>>, NotHandled)
       ELSE LET da == read_tlv_raw(packet_data, packet_len, TagDA, MAX_DATA_SIZE, beyond)
                request_data == IF da.ret < 0 THEN <<>> ELSE da.value
                h == handler(instruction, request_data, Len(request_data), dev, beyond)
                after == afterHandler(h)
                in_tlv == write_tlv_string(MAX_DATA_SIZE, TagIN, instruction)
                st_tlv == write_tlv_uint8(MAX_DATA_SIZE - in_tlv.ret, TagST, after.status)
                da_tlv == IF Len(after.response_data) > 0
                          THEN write_tlv_raw(MAX_DATA_SIZE - in_tlv.ret - st_tlv.ret,
                                             TagDA, after.response_data)
                          ELSE [ret |-> 0, out |-> <<>>]
                packet == build_packet(DEVICE_RESPONSE, SlavePacketId, response_id,
                                       in_tlv.out \o st_tlv.out \o da_tlv.out,
                                       MAX_PACKET_SIZE, stale, mode)
            IN IF h.fault THEN Dispatched(-1, <<>>, h)
               ELSE IF in_tlv.ret < 0 \/ st_tlv.ret < 0 \/ da_tlv.ret < 0
               THEN Dispatched(-1, <<>>, h)
               ELSE IF packet.ret < 0 THEN Dispatched(-1, <<>>, h)
               ELSE Dispatched(0, packet.out, h)

\* send_response_packet: the frame handed to the UART, none when a transmission is
\* still under way or the frame does not fit tx_buffer
send_response_packet(packet, tx_complete) ==
    IF ~tx_complete \/ Len(packet) > COMM_TX_BUFFER_SIZE THEN <<>> ELSE <<packet>>

\* send_error_response(response_id, error_code, error_desc): the frames handed to the
\* UART; packet_id_counter is the counter before the call
send_error_response(response_id, error_code, error_desc, packet_id_counter, tx_complete, stale, mode) ==
    LET ec == write_tlv_uint8(ErrorDataSize, TagEC, error_code)
        ed == IF strlen(error_desc) > 0
              THEN write_tlv_string(ErrorDataSize - ec.ret, TagED, error_desc)
              ELSE [ret |-> 0, out |-> <<>>]
        packet == build_packet(DEVICE_ERROR, packet_id_counter, response_id,
                               ec.out \o ed.out, MAX_PACKET_SIZE, stale, mode)
    IN IF ec.ret < 0 \/ ed.ret < 0 THEN <<>>
       ELSE IF packet.ret < 0 THEN <<>>
       ELSE send_response_packet(packet.out, tx_complete)

\* "Packet corrupted", "Unexpected packet type", "Command processing failed"
DescCorrupt == <<80, 97, 99, 107, 101, 116, 32, 99, 111, 114, 114, 117, 112, 116, 101, 100>>
DescUnexpected ==
    <<85, 110, 101, 120, 112, 101, 99, 116, 101, 100, 32, 112, 97, 99, 107, 101, 116, 32,
      116, 121, 112, 101>>
DescFailed ==
    <<67, 111, 109, 109, 97, 110, 100, 32, 112, 114, 111, 99, 101, 115, 115, 105, 110,
      103, 32, 102, 97, 105, 108, 101, 100>>

\* process_received_data over the rx_buffer_pos bytes of rx_buffer: its return value,
\* the frames handed to the UART, and whether the call ran into a fault. junk_id is
\* what the uninitialised header.packet_id holds when parse_packet failed.
process_received_data(rx_buffer, junk_id, packet_id_counter, tx_complete, dev, beyond, stale, mode) ==
    IF Len(rx_buffer) < 4 THEN [ret |-> -1, sent |-> <<>>, fault |-> FALSE]
    ELSE IF ~find_packet_boundaries(rx_buffer).found
    THEN [ret |-> -1, sent |-> <<>>, fault |-> FALSE]
    ELSE LET parsed == parse_packet(rx_buffer, MAX_DATA_SIZE, mode)
         IN IF parsed.ret < 0
            THEN [ret |-> -1, fault |-> FALSE,
                  sent |-> send_error_response(junk_id, ERROR_CORRUPT, DescCorrupt,
                                               packet_id_counter, tx_complete, stale, mode)]
            ELSE IF parsed.header.type # HOST_REQUEST
            THEN [ret |-> -1, fault |-> FALSE,
                  sent |-> send_error_response(parsed.header.packet_id,
                                               ERROR_UNEXPECTED_RESP, DescUnexpected,
                                               packet_id_counter, tx_complete, stale, mode)]
            ELSE LET cmd == process_command_packet(parsed.data, parsed.ret,
                                                   parsed.header.packet_id, dev, beyond,
                                                   stale, mode)
                 IN IF cmd.fault THEN [ret |-> -1, sent |-> <<>>, fault |-> TRUE]
                    ELSE IF cmd.ret < 0
                    THEN [ret |-> -1, fault |-> FALSE,
                          sent |-> send_error_response(parsed.header.packet_id,
                                                       ERROR_UNKNOWN, DescFailed,
                                                       packet_id_counter, tx_complete,
                                                       stale, mode)]
                    ELSE [ret |-> 0, fault |-> FALSE,
                          sent |-> send_response_packet(cmd.out, tx_complete)]

\* a request payload as the list of its top-level TLVs
Tlv(tag, value) == [tag |-> tag, value |-> value]

RECURSIVE requestBytes(_)
\* the payload bytes of a list of TLVs, each laid out by write_tlv_raw
requestBytes(fields) ==
    IF fields = <<>> THEN <<>>
    ELSE write_tlv_raw(MAX_DATA_SIZE, fields[1].tag, fields[1].value).out
         \o requestBytes(Tail(fields))

\* the arguments of sdat (year, month, day, weekday) and of stim (hour, minute, second)
DateArgs(yy, mm, dd, wk) ==
    requestBytes(<<Tlv(TagYY, <<yy>>), Tlv(TagMM, <<mm>>), Tlv(TagDD, <<dd>>),
                   Tlv(TagWK, <<wk>>)>>)
TimeArgs(hh, mm, ss) ==
    requestBytes(<<Tlv(TagHH, <<hh>>), Tlv(TagMM, <<mm>>), Tlv(TagSS, <<ss>>)>>)

\* requests with an instruction of the command table: with and without DA, with
\* arguments that are complete, out of range or missing
KnownRequests ==
    {<<Tlv(TagIN, CmdPing), Tlv(TagDA, <<>>)>>,
     <<Tlv(TagIN, CmdPing)>>,
     <<Tlv(TagDA, <<>>), Tlv(TagIN, CmdPing)>>,
     <<Tlv(TagIN, CmdTemp), Tlv(TagDA, <<>>)>>,
     <<Tlv(TagIN, CmdSdat), Tlv(TagDA, DateArgs(25, 6, 15, 7))>>,
     <<Tlv(TagIN, CmdSdat), Tlv(TagDA, DateArgs(25, 13, 15, 7))>>,
     <<Tlv(TagIN, CmdSdat), Tlv(TagDA, requestBytes(<<Tlv(TagYY, <<25>>),
                                                      Tlv(TagMM, <<6>>),
                                                      Tlv(TagDD, <<15>>)>>))>>,
     <<Tlv(TagIN, CmdSdat)>>,
     <<Tlv(TagIN, CmdStim), Tlv(TagDA, TimeArgs(12, 30, 0))>>,
     <<Tlv(TagIN, CmdStim), Tlv(TagDA, TimeArgs(24, 30, 0))>>,
     <<Tlv(TagIN, CmdSalm),
       Tlv(TagDA, requestBytes(<<Tlv(TagAL, requestBytes(<<Tlv(<<73, 84>>,
                                     <<73, 68, 1, 0, 1>>)>>))>>))>>,
     <<Tlv(TagIN, CmdSalm), Tlv(TagDA, requestBytes(<<Tlv(TagYY, <<25>>)>>))>>}

\* requests without an instruction of the command table: no IN at all (an empty
\* payload among them), and IN values that are no command name
UnknownRequests ==
    {<<>>,
     <<Tlv(TagDA, <<>>)>>,
     <<Tlv(TagST, <<0>>)>>,
     <<Tlv(TagIN, <<120, 120, 120, 120>>), Tlv(TagDA, <<>>)>>,
     <<Tlv(TagIN, <<112, 105, 110, 103, 88>>)>>,
     <<Tlv(TagIN, <<112, 105, 110>>)>>,
     <<Tlv(TagIN, <<>>)>>}

\* the state of the device's sensor and clock
DevStates ==
    {[sensor_ok |-> s, temp_raw |-> t, rtc_initialized |-> c] :
        s \in BOOLEAN, t \in {255, TempReadFailed}, c \in BOOLEAN}

CommandArgs ==
    {[op |-> "process_command_packet", fields |-> f, response_id |-> r, dev |-> d,
      beyond |-> b, stale |-> st, mode |-> m] :
        f \in KnownRequests \cup UnknownRequests, r \in {1, 85}, d \in DevStates,
        b \in {"fault", "none"}, st \in StaleBytes, m \in {"sum", "hw"}}

\* process_command_packet applied to the payload of the request
ProcessCommandPacket ==
    /\ args.op = "process_command_packet"
    /\ result = <<>>
    /\ result' = <<process_command_packet(requestBytes(args.fields),
                                          Len(requestBytes(args.fields)),
                                          args.response_id, args.dev, args.beyond,
                                          args.stale, args.mode)>>
    /\ UNCHANGED <<args, mcu, bluetooth, corrVars, rxVars>>

\* frames in rx_buffer: requests, and a response frame; after communication_init
\* tx_complete is true and packet_id_counter is 0x8000
ReceiveArgs ==
    {[op |-> "process_received_data", type |-> t, packet_id |-> p, fields |-> f,
      dev |-> d, beyond |-> b, stale |-> <<0, 0, 0>>, mode |-> m, junk_id |-> 0,
      tx_complete |-> TRUE, packet_id_counter |-> SlavePacketId] :
        t \in {HOST_REQUEST, DEVICE_RESPONSE}, p \in {1, 85},
        f \in KnownRequests \cup UnknownRequests, d \in DevStates,
        b \in {"fault", "none"}, m \in {"sum", "hw"}}

\* the frame of the request, laid out by build_packet as test_host_communication does
requestFrame(a) ==
    build_packet(a.type, a.packet_id, 0, requestBytes(a.fields), MAX_PACKET_SIZE,
                 a.stale, a.mode).out

\* process_received_data applied to the frame in rx_buffer
ProcessReceivedData ==
    /\ args.op = "process_received_data"
    /\ result = <<>>
    /\ result' = <<process_received_data(requestFrame(args), args.junk_id,
                                         args.packet_id_counter, args.tx_complete,
                                         args.dev, args.beyond, args.stale, args.mode)>>
    /\ UNCHANGED <<args, mcu, bluetooth, corrVars, rxVars>>

\* buffers handed to the read_tlv_ functions: every prefix of a run of TLVs, so that
\* buffer_size takes the values 0 to 3 as well, and a TLV whose length field points
\* behind the end of the buffer
TlvRun ==
    requestBytes(<<Tlv(TagYY, <<25>>), Tlv(TagIN, CmdPing), Tlv(TagDA, <<>>)>>)
TlvBuffers ==
    {SubSeq(TlvRun, 1, n) : n \in 0..Len(TlvRun)}
    \cup {SubSeq(TlvRun, 6, n) : n \in 6..Len(TlvRun)}
    \cup {TagYY \o <<9, 0, 25>>, TagIN \o <<200, 0>> \o CmdPing}

TlvReadArgs ==
    {[op |-> "read_tlv", kind |-> k, buffer |-> b, tag |-> t, beyond |-> y] :
        k \in {"uint8", "string", "raw"}, b \in TlvBuffers, t \in {TagYY, TagIN, TagDA},
        y \in {"fault", "none"}}

\* one of read_tlv_uint8, read_tlv_string (into a char[5]) and read_tlv_raw (into
\* MAX_DATA_SIZE bytes) applied to the buffer, with buffer_size its length
ReadTlv ==
    /\ args.op = "read_tlv"
    /\ result = <<>>
    /\ result' = <<CASE args.kind = "uint8" ->
                          read_tlv_uint8(args.buffer, Len(args.buffer), args.tag, args.beyond)
                     [] args.kind = "string" ->
                          read_tlv_string(args.buffer, Len(args.buffer), args.tag,
                                          InstructionSize, args.beyond)
                     [] args.kind = "raw" ->
                          read_tlv_raw(args.buffer, Len(args.buffer), args.tag,
                                       MAX_DATA_SIZE, args.beyond)>>
    /\ UNCHANGED <<args, mcu, bluetooth, corrVars, rxVars>>

\* sizeof(log_item_data) in handle_get_log
LogItemSize == 16
\* the default of max_count, and the size of entries[], in handle_get_log
MaxLogQuery == 100
\* 24 * 3600
DaySeconds == 86400
\* stands for a uint64_t that wrapped below zero: larger than every timestamp of
\* the model
Uint64Wrapped == 2147483647

TagT1 == <<84, 49>>
TagT2 == <<84, 50>>
TagMX == <<77, 88>>
TagTS == <<84, 83>>
TagLG == <<76, 71>>
TagIT == <<73, 84>>

\* a uint64_t below 2^31 as its eight bytes in memory, and back
Bytes64LE(v) == BytesU32LE(v) \o <<0, 0, 0, 0>>
U64LE(b) == b[1] + 256 * b[2] + 65536 * b[3] + 16777216 * b[4]

write_tlv_uint16(buffer_size, tag, value) ==
    IF buffer_size < 6 THEN [ret |-> -1, out |-> <<>>]
    ELSE [ret |-> 6, out |-> tag \o Bytes16LE(2) \o Bytes16LE(value)]

write_tlv_uint64(buffer_size, tag, value) ==
    IF buffer_size < 12 THEN [ret |-> -1, out |-> <<>>]
    ELSE [ret |-> 12, out |-> tag \o Bytes16LE(8) \o Bytes64LE(value)]

read_tlv_uint16(buffer, buffer_size, tag, beyond) ==
    tlvRead(buffer, buffer_size, tag, 2, 2, beyond)

read_tlv_uint64(buffer, buffer_size, tag, beyond) ==
    tlvRead(buffer, buffer_size, tag, 8, 8, beyond)

\* temp_log_get_entries(start_time, end_time, entries, max_entries) over the stored
\* entries, oldest first: the entries of the time range are copied out in order and
\* the loop stops once max_entries are found
temp_log_get_entries(log, start_time, end_time, max_entries) ==
    IF max_entries = 0 THEN <<>>
    ELSE LET found == SelectSeq(log, LAMBDA e : e.timestamp >= start_time /\ e.timestamp <= end_time)
         IN SubSeq(found, 1, IF Len(found) < max_entries THEN Len(found) ELSE max_entries)

RECURSIVE logListLoop(_, _, _)
\* the for loop of handle_get_log that builds log_list_data; a write that does not
\* fit breaks out of the loop
logListLoop(entries, i, log_list_data) ==
    IF i > Len(entries) THEN log_list_data
    ELSE LET ts == write_tlv_uint64(LogItemSize, TagTS, entries[i].timestamp)
             temp == write_tlv_float32(LogItemSize - ts.ret, TagT, entries[i].temperature)
             item == write_tlv_raw(MAX_DATA_SIZE - Len(log_list_data), TagIT,
                                   ts.out \o temp.out)
         IN IF ts.ret < 0 THEN log_list_data
            ELSE IF temp.ret < 0 THEN log_list_data
            ELSE IF item.ret < 0 THEN log_list_data
            ELSE logListLoop(entries, i + 1, log_list_data \o item.out)

\* handle_get_log; log is g_temp_log from the oldest entry on, now is what
\* rtc_get_timestamp returns
handle_get_log(request_data, request_len, log, now, beyond) ==
    LET t1 == read_tlv_uint64(request_data, request_len, TagT1, beyond)
        t2 == read_tlv_uint64(request_data, request_len, TagT2, beyond)
        mx == read_tlv_uint16(request_data, request_len, TagMX, beyond)
        read_start == IF t1.ret < 0 THEN 0 ELSE U64LE(t1.value)
        read_end == IF t2.ret < 0 THEN 0 ELSE U64LE(t2.value)
        max_count == IF mx.ret < 0 THEN MaxLogQuery ELSE U16LE(mx.value, 0)
        end_time == IF read_end = 0 THEN now ELSE read_end
        start_time == IF read_start # 0 THEN read_start
                      ELSE IF end_time >= DaySeconds THEN end_time - DaySeconds
                      ELSE Uint64Wrapped
        entries == temp_log_get_entries(log, start_time, end_time,
                       IF max_count < MaxLogQuery THEN max_count ELSE MaxLogQuery)
        lg == write_tlv_raw(MAX_DATA_SIZE, TagLG, logListLoop(entries, 1, <<>>))
    IN IF t1.fault THEN HandlerFault
       ELSE IF lg.ret < 0 THEN Handled(-1, STATUS_INTERNAL_ERROR, <<>>)
       ELSE Handled(0, STATUS_OK, lg.out)

\* log entries (timestamp, temperature as a float in memory): 22.5 at 1500, 23.0 at
\* 2500, 20.0 at 500
LogEntry(ts, temp) == [timestamp |-> ts, temperature |-> temp]
LogEntries ==
    {LogEntry(1500, <<0, 0, 180, 65>>), LogEntry(2500, <<0, 0, 184, 65>>),
     LogEntry(500, <<0, 0, 160, 65>>)}

\* the logs the device may hold: up to MaxLogLen entries
MaxLogLen == 2
Logs == SeqsUpTo(LogEntries, MaxLogLen)

\* the DA contents of glog requests: a range, a range with a count, a count of
\* zero, an end only, and no arguments but a count
LogQueries ==
    {requestBytes(<<Tlv(TagT1, Bytes64LE(1000)), Tlv(TagT2, Bytes64LE(2000))>>),
     requestBytes(<<Tlv(TagT1, Bytes64LE(1000)), Tlv(TagT2, Bytes64LE(3000))>>),
     requestBytes(<<Tlv(TagT1, Bytes64LE(1000)), Tlv(TagT2, Bytes64LE(2000)),
                    Tlv(TagMX, Bytes16LE(10))>>),
     requestBytes(<<Tlv(TagT1, Bytes64LE(1)), Tlv(TagT2, Bytes64LE(3000)),
                    Tlv(TagMX, Bytes16LE(1))>>),
     requestBytes(<<Tlv(TagT1, Bytes64LE(1000)), Tlv(TagT2, Bytes64LE(2000)),
                    Tlv(TagMX, Bytes16LE(0))>>),
     requestBytes(<<Tlv(TagT2, Bytes64LE(2000))>>),
     requestBytes(<<Tlv(TagMX, Bytes16LE(10))>>),
     <<>>}

GetLogArgs ==
    {[op |-> "handle_get_log", request_data |-> q, log |-> l, now |-> n, beyond |-> y] :
        q \in LogQueries, l \in Logs, n \in {0, 3000, 100000}, y \in {"fault", "none"}}

\* handle_get_log applied to the arguments of a glog request
HandleGetLog ==
    /\ args.op = "handle_get_log"
    /\ result = <<>>
    /\ result' = <<handle_get_log(args.request_data, Len(args.request_data), args.log,
                                  args.now, args.beyond)>>
    /\ UNCHANGED <<args, mcu, bluetooth, corrVars, rxVars>>

---------------------------------------------------------------------------
(* Device (MCU): device_control.c alarm configuration, galm and salm *)

MAX_ALARMS == 2

TagID == <<73, 68>>
\* TAG_ALARM_LOW "L" and TAG_ALARM_HIGH "H": the two bytes memcpy(buffer, tag, 2) takes
\* from the literal are the letter and the NUL that ends it
TAG_ALARM_LOW == <<76, 0>>
TAG_ALARM_HIGH == <<72, 0>>
CmdGalm == <<103, 97, 108, 109>>

\* a float is kept as the four bytes it has in memory: -40.0f, 80.0f and the
\* thresholds of the runs (2.0, 8.0, -20.0, 30.0, 20.0, 15.0, 35.0)
FloatM40 == <<0, 0, 32, 194>>
Float80 == <<0, 0, 160, 66>>
Float2 == <<0, 0, 0, 64>>
Float8 == <<0, 0, 0, 65>>
FloatM20 == <<0, 0, 160, 193>>
Float30 == <<0, 0, 240, 65>>
Float20 == <<0, 0, 160, 65>>
Float15 == <<0, 0, 112, 65>>
Float35 == <<0, 0, 12, 66>>

\* alarm_init(): g_alarm_configs after start-up
alarm_init == [i \in 0..(MAX_ALARMS - 1) |-> [id |-> i, low_temp |-> FloatM40, high_temp |-> Float80]]

alarm_set_config(g, alarm_id, low_temp, high_temp) ==
    IF alarm_id < MAX_ALARMS
    THEN [g EXCEPT ![alarm_id] = [@ EXCEPT !.low_temp = low_temp, !.high_temp = high_temp]]
    ELSE g

alarm_get_config(g, alarm_id) == g[alarm_id]

\* one alarm item of handle_get_alarms, built in alarm_item_data[64]
alarmItem(config) ==
    LET id == write_tlv_uint8(64, TagID, config.id)
        low == write_tlv_float32(64 - id.ret, TAG_ALARM_LOW, config.low_temp)
        high == write_tlv_float32(64 - id.ret - low.ret, TAG_ALARM_HIGH, config.high_temp)
    IN IF id.ret < 0 \/ low.ret < 0 \/ high.ret < 0 THEN [ret |-> -1, out |-> <<>>]
       ELSE [ret |-> id.ret + low.ret + high.ret, out |-> id.out \o low.out \o high.out]

RECURSIVE alarmListLoop(_, _, _)
\* the loop for (i = 0; i < MAX_ALARMS; i++) of handle_get_alarms
alarmListLoop(g, i, alarm_list_data) ==
    IF i >= MAX_ALARMS THEN [ret |-> 0, out |-> alarm_list_data]
    ELSE LET item == alarmItem(alarm_get_config(g, i))
             it == write_tlv_raw(MAX_DATA_SIZE - Len(alarm_list_data), TagIT, item.out)
         IN IF item.ret < 0 \/ it.ret < 0 THEN [ret |-> -1, out |-> <<>>]
            ELSE alarmListLoop(g, i + 1, alarm_list_data \o it.out)

handle_get_alarms(g) ==
    LET list == alarmListLoop(g, 0, <<>>)
        al == write_tlv_raw(MAX_DATA_SIZE, TagAL, list.out)
    IN IF list.ret < 0 \/ al.ret < 0 THEN Handled(-1, STATUS_INTERNAL_ERROR, <<>>)
       ELSE Handled(0, STATUS_OK, al.out)

\* the response payload process_command_packet builds from a handler's outcome
responsePayload(instruction, h) ==
    LET after == afterHandler(h)
        in_tlv == write_tlv_string(MAX_DATA_SIZE, TagIN, instruction)
        st_tlv == write_tlv_uint8(MAX_DATA_SIZE - in_tlv.ret, TagST, after.status)
        da_tlv == IF Len(after.response_data) > 0
                  THEN write_tlv_raw(MAX_DATA_SIZE - in_tlv.ret - st_tlv.ret, TagDA, after.response_data)
                  ELSE [ret |-> 0, out |-> <<>>]
    IN [status |-> after.status, payload |-> in_tlv.out \o st_tlv.out \o da_tlv.out]

\* the host's reading of a response payload: the part of parseResponse after
\* decodePacket's frame checks
parsedPayload(dataBuffer) ==
    LET data == decodeTLVs(dataBuffer, 0, <<>>)
    IN IF data.err # "" THEN CorruptResponse(data.err)
       ELSE LET top == Array(data.fields)
                command == findTLVValue(top, TagIN)
                status == findTLVValue(top, TagST)
                dataField == findTLVValue(top, TagDA)
                dataContent == IF Truthy(dataField) THEN dataField ELSE Array(<<>>)
            IN IF status # Number(STATUS_OK)
               THEN ParsedResponse(FALSE, command, status, Undefined,
                       Object(<<<<"code", IF Truthy(status) THEN status
                                          ELSE Number(STATUS_INTERNAL_ERROR)>>>>))
               ELSE ParsedResponse(TRUE, command, status,
                                   responseData(command, dataContent), Undefined)

\* the alarm configurations the host sends with setAlarmConfigs
AlarmItems == [id : 0..(MAX_ALARMS - 1), lowTemp : {Float2, FloatM20}, highTemp : {Float8, Float30}]

\* one alarm or two alarms with different ids; preset says whether the thresholds
\* have been set by alarm_set_config before (as the set-up of test_protocol.h does)
AlarmArgs ==
    {[op |-> "alarms", alarms |-> <<a>>, preset |-> p] : a \in AlarmItems, p \in BOOLEAN}
    \cup {[op |-> "alarms", alarms |-> <<q[1], q[2]>>, preset |-> p] :
            q \in {x \in AlarmItems \X AlarmItems : x[1].id # x[2].id}, p \in BOOLEAN}

\* the DA content createSetAlarmsRequest encodes for the alarms
salmRequestData(alarms) ==
    encodeTLVs(<<Field(TagAL, Array([k \in 1..Len(alarms) |->
        Field(TagIT, Array(<<Field(TagID, Number(alarms[k].id)),
                             Field(<<76, 32>>, Float32(alarms[k].lowTemp)),
                             Field(<<72, 32>>, Float32(alarms[k].highTemp))>>))]))>>)

AlarmStep(op, status, payload, parsed) == [op |-> op, status |-> status, payload |-> payload, parsed |-> parsed]

\* the device handles the host's salm request: handle_set_alarms reads the AL list
\* and calls nothing that stores it, g_alarm_configs stays as it is
SetAlarms ==
    /\ args.op = "alarms"
    /\ Len(result) < MaxAlarmSteps
    /\ LET request_data == salmRequestData(args.alarms)
           r == responsePayload(CmdSalm, handle_set_alarms(request_data, Len(request_data), "none"))
       IN result' = Append(result, AlarmStep("salm", r.status, r.payload, Undefined))
    /\ UNCHANGED <<args, mcu, bluetooth, corrVars, rxVars>>

\* the device handles a galm request
GetAlarms ==
    /\ args.op = "alarms"
    /\ Len(result) < MaxAlarmSteps
    /\ LET r == responsePayload(CmdGalm, handle_get_alarms(mcu.g_alarm_configs))
       IN result' = Append(result, AlarmStep("galm", r.status, r.payload, Undefined))
    /\ UNCHANGED <<args, mcu, bluetooth, corrVars, rxVars>>

\* the host reads the response the device gave last
ParseAlarmResponse ==
    /\ args.op = "alarms"
    /\ Len(result) < MaxAlarmSteps
    /\ result # <<>>
    /\ result[Len(result)].op \in {"salm", "galm"}
    /\ LET last == result[Len(result)]
       IN result' = Append(result, AlarmStep("parsed", last.status, last.payload, parsedPayload(last.payload)))
    /\ UNCHANGED <<args, mcu, bluetooth, corrVars, rxVars>>

---------------------------------------------------------------------------
(* Device (MCU): communication.c - UART reception, task and callbacks *)

COMM_RX_BUFFER_SIZE == 1024

\* the single byte the DMA has stored at rx_buffer[index]
dmaStore(rx_buffer, index, byte) == IF index < Len(rx_buffer) THEN [rx_buffer EXCEPT ![index + 1] = byte] ELSE Append(rx_buffer, byte)

\* communication_rx_complete_callback() after the DMA has stored a byte; dma is the
\* index HAL_UART_Receive_DMA is armed at, -1 when no reception is armed
communication_rx_complete_callback(m) ==
    LET b == m.rx_buffer
    IN IF m.rx_buffer_pos = 0 /\ b[1] = START_BYTES[1]
       THEN [m EXCEPT !.rx_buffer_pos = 1, !.dma = 1]
       ELSE IF m.rx_buffer_pos = 1 /\ b[2] = START_BYTES[2]
       THEN [m EXCEPT !.rx_buffer_pos = 2, !.dma = 2]
       ELSE IF m.rx_buffer_pos >= 2
       THEN LET pos == m.rx_buffer_pos + 1
                ended == pos >= 4 /\ b[pos - 1] = END_BYTES[1] /\ b[pos] = END_BYTES[2]
                is_escaped == pos > 4 /\ b[pos - 2] = ESCAPE_BYTE
            IN IF ended /\ ~is_escaped
               THEN [m EXCEPT !.rx_buffer_pos = pos, !.rx_complete = TRUE, !.dma = -1,
                              !.completedAt = Append(@, m.fed)]
               ELSE IF pos < COMM_RX_BUFFER_SIZE
               THEN [m EXCEPT !.rx_buffer_pos = pos, !.dma = pos]
               ELSE [m EXCEPT !.rx_buffer_pos = 0, !.dma = 0]
       ELSE [m EXCEPT !.rx_buffer_pos = 0, !.dma = 0]

\* start_uart_receive(): arms the reception of one byte only from COMM_STATE_IDLE
start_uart_receive(m) ==
    IF m.comm_state = "IDLE"
    THEN [m EXCEPT !.comm_state = "RECEIVING", !.rx_buffer_pos = 0, !.dma = 0]
    ELSE m

\* communication_init(): the state of the module before any byte, reception armed
communication_init(wire) ==
    start_uart_receive(
        [module |-> "communication", comm_state |-> "IDLE", rx_buffer |-> <<>>,
         rx_buffer_pos |-> 0, rx_complete |-> FALSE, tx_complete |-> TRUE, dma |-> -1,
         packet_id_counter |-> SlavePacketId, taskPc |-> "idle", wire |-> wire,
         fed |-> 0, completedAt |-> <<>>, handled |-> 0, answered |-> <<>>,
         uartErrors |-> 0, fault |-> FALSE])

\* the host's requests put on the wire: ping and temp; packet id 85 is a byte that is
\* stuffed, packet id 3 gives the ping frame a hardware CRC whose last byte is 0
UartRequests == {<<Tlv(TagIN, CmdPing), Tlv(TagDA, <<>>)>>, <<Tlv(TagIN, CmdTemp), Tlv(TagDA, <<>>)>>}

UartFrameArgs ==
    [type : {HOST_REQUEST}, packet_id : {1, 2, 3, 85}, fields : UartRequests,
     stale : {<<0, 0, 0>>}, mode : {"sum", "hw"}]

\* one or two frames, built by the same build of the protocol
UartArgs ==
    {[op |-> "uart", frames |-> <<f>>, mode |-> f.mode] : f \in UartFrameArgs}
    \cup {[op |-> "uart", frames |-> <<p[1], p[2]>>, mode |-> p[1].mode] :
            p \in {q \in UartFrameArgs \X UartFrameArgs :
                      q[2].mode = q[1].mode /\ q[2].packet_id = q[1].packet_id + 1}}

RECURSIVE wireOf(_)
wireOf(frames) == IF frames = <<>> THEN <<>> ELSE requestFrame(Head(frames)) \o wireOf(Tail(frames))

\* the sensor and RTC of the device during the run
UartDev == [sensor_ok |-> TRUE, temp_raw |-> 255, rtc_initialized |-> TRUE]

\* the next byte of the wire reaches the UART: lost when no reception is armed, else
\* stored by the DMA, which raises communication_rx_complete_callback
UartRxByte ==
    /\ args.op = "uart"
    /\ ~mcu.fault
    /\ mcu.wire # <<>>
    /\ LET got == [mcu EXCEPT !.wire = Tail(@), !.fed = @ + 1]
       IN mcu' = IF mcu.dma = -1 THEN got
                 ELSE communication_rx_complete_callback(
                          [got EXCEPT !.rx_buffer = dmaStore(@, mcu.dma, Head(mcu.wire))])
    /\ UNCHANGED <<args, result, bluetooth, corrVars, rxVars>>

\* communication_task() up to the return of process_received_data
CommunicationTaskProcess ==
    /\ args.op = "uart"
    /\ ~mcu.fault
    /\ mcu.taskPc = "idle"
    /\ mcu.rx_complete
    /\ \E r \in {process_received_data(SubSeq(mcu.rx_buffer, 1, mcu.rx_buffer_pos), 0,
                                         mcu.packet_id_counter, mcu.tx_complete, UartDev,
                                         "none", <<0, 0, 0>>, args.mode)} :
       LET errorBuilt == r.ret < 0 /\ mcu.rx_buffer_pos >= 4
       IN mcu' = [mcu EXCEPT !.rx_complete = FALSE,
                             !.comm_state = IF r.sent # <<>> THEN "TRANSMITTING" ELSE "PROCESSING",
                             !.tx_complete = IF r.sent # <<>> THEN FALSE ELSE @,
                             !.answered = @ \o r.sent,
                             !.packet_id_counter = IF errorBuilt THEN @ + 1 ELSE @,
                             !.fault = r.fault,
                             !.taskPc = "restart"]
    /\ UNCHANGED <<args, result, bluetooth, corrVars, rxVars>>

\* the rest of communication_task(): start_uart_receive(); comm_state = IDLE
CommunicationTaskRestart ==
    /\ args.op = "uart"
    /\ ~mcu.fault
    /\ mcu.taskPc = "restart"
    /\ mcu' = [start_uart_receive(mcu) EXCEPT !.comm_state = "IDLE", !.taskPc = "idle",
                                               !.handled = @ + 1]
    /\ UNCHANGED <<args, result, bluetooth, corrVars, rxVars>>

\* communication_tx_complete_callback(), raised when the DMA has sent the frame
CommunicationTxComplete ==
    /\ args.op = "uart"
    /\ ~mcu.fault
    /\ ~mcu.tx_complete
    /\ mcu' = [mcu EXCEPT !.tx_complete = TRUE,
                          !.comm_state = IF @ = "TRANSMITTING" THEN "IDLE" ELSE @]
    /\ UNCHANGED <<args, result, bluetooth, corrVars, rxVars>>

\* communication_error_callback() on a UART error during reception; aborted says
\* whether the HAL has stopped the reception DMA before calling it
CommunicationError(aborted) ==
    /\ args.op = "uart"
    /\ ~mcu.fault
    /\ mcu.dma # -1
    /\ mcu.uartErrors < MaxUartErrors
    /\ LET stopped == [mcu EXCEPT !.dma = IF aborted THEN -1 ELSE @,
                                  !.rx_buffer_pos = 0, !.rx_complete = FALSE,
                                  !.uartErrors = @ + 1]
       IN mcu' = IF stopped.comm_state = "RECEIVING" THEN start_uart_receive(stopped)
                 ELSE stopped
    /\ UNCHANGED <<args, result, bluetooth, corrVars, rxVars>>

---------------------------------------------------------------------------
(* Device (MCU): device_control.c temperature log (the ring g_temp_log) *)

MAX_LOG_ENTRIES == 100

\* temp_log_init(): the ring zeroed, count and write index 0
temp_log_init ==
    [g_temp_log |-> [i \in 0..(MAX_LOG_ENTRIES - 1) |-> LogEntry(0, 0)],
     g_log_count |-> 0, g_log_write_index |-> 0]

\* a variant of temp_log_add_entry that counts every call
temp_log_add_entryCountsAll(g, timestamp, temperature) ==
    [g_temp_log |-> [g.g_temp_log EXCEPT ![g.g_log_write_index] = LogEntry(timestamp, temperature)],
     g_log_write_index |-> (g.g_log_write_index + 1) % MAX_LOG_ENTRIES,
     g_log_count |-> g.g_log_count + 1]

\* temp_log_add_entry(temperature) at the time rtc_get_timestamp() returns
temp_log_add_entry(g, timestamp, temperature) ==
    [g_temp_log |-> [g.g_temp_log EXCEPT ![g.g_log_write_index] = LogEntry(timestamp, temperature)],
     g_log_write_index |-> (g.g_log_write_index + 1) % MAX_LOG_ENTRIES,
     g_log_count |-> IF g.g_log_count < MAX_LOG_ENTRIES THEN g.g_log_count + 1
                     ELSE g.g_log_count]

\* the entries temp_log_get_entries walks over: g_log_count entries from read_index
storedEntries(g) ==
    LET read_index == (g.g_log_write_index + MAX_LOG_ENTRIES - g.g_log_count) % MAX_LOG_ENTRIES
    IN [i \in 1..g.g_log_count |-> g.g_temp_log[(read_index + (i - 1)) % MAX_LOG_ENTRIES]]

\* number of temp_log_add_entry calls explored
MaxLogAdds == 205

\* the runs tried: the RTC initialised or not (rtc_get_timestamp() then returns 0),
\* and the first temperature logged, in tenths of a degree
LogRunArgs == [op : {"tempLog"}, rtc : BOOLEAN, first : {200, 225}]

\* the sizes of entries[] tried by the callers of temp_log_get_entries
QueryCaps == {20, MAX_LOG_ENTRIES}

\* the k-th temp_log_add_entry call of a run
TempLogAddEntry ==
    /\ args \in LogRunArgs
    /\ Len(mcu.added) < MaxLogAdds
    /\ LET k == Len(mcu.added) + 1
           timestamp == IF args.rtc THEN k ELSE 0
           temperature == args.first + 5 * k
       IN mcu' = [module |-> "temp_log",
                  log |-> temp_log_add_entry(mcu.log, timestamp, temperature),
                  added |-> Append(mcu.added, LogEntry(timestamp, temperature))]
    /\ result' = <<>>
    /\ UNCHANGED <<args, bluetooth, corrVars, rxVars>>

\* temp_log_get_entries(0, UINT64_MAX, entries, max_entries)
TempLogGetEntries ==
    /\ args \in LogRunArgs
    /\ result = <<>>
    /\ \E max_entries \in QueryCaps :
          result' = <<[max_entries |-> max_entries,
                       entries |-> temp_log_get_entries(storedEntries(mcu.log), 0,
                                                        Uint64Wrapped, max_entries)]>>
    /\ UNCHANGED <<args, mcu, bluetooth, corrVars, rxVars>>

---------------------------------------------------------------------------
(* CommunicationManager: executeWithRetry *)

\* the fallback of `maxRetries || this.config.retryCount || 3`
FallbackRetries == 3
\* the unit of the delay between attempts, in milliseconds
RetryDelayMs == 1000

\* an optional number is <<>> for undefined and <<n>> for the number n; `||` skips
\* undefined and the number 0
Falsy(v) == v = <<>> \/ v = <<0>>

\* const retries = maxRetries || this.config.retryCount || 3
retriesOf(maxRetries, retryCount) == IF ~Falsy(maxRetries) THEN maxRetries[1] ELSE IF ~Falsy(retryCount) THEN retryCount[1] ELSE FallbackRetries

\* the for loop of executeWithRetry: operation[k] tells whether the k-th call of the
\* operation succeeds; the k-th call returns the value k or throws the error k
RECURSIVE retryLoop(_, _, _, _, _)
retryLoop(operation, retries, attempt, waits, lastError) ==
    IF attempt > retries
    THEN [outcome |-> "thrown", value |-> lastError, attempts |-> attempt, waits |-> waits]
    ELSE IF operation[attempt + 1]
         THEN [outcome |-> "returned", value |-> attempt + 1, attempts |-> attempt + 1,
               waits |-> waits]
         ELSE retryLoop(operation, retries, attempt + 1,
                        IF attempt < retries
                        THEN Append(waits, RetryDelayMs * (attempt + 1))
                        ELSE waits,
                        attempt + 1)

\* executeWithRetry(operation, maxRetries) of a manager whose config.retryCount is
\* retryCount
executeWithRetry(operation, maxRetries, retryCount) == retryLoop(operation, retriesOf(maxRetries, retryCount), 0, <<>>, 0)

\* the retry counts tried, as an argument and as config.retryCount
RetryCounts == {<<>>} \cup {<<n>> : n \in 0..FallbackRetries}

\* the operations tried: one outcome for each call the loop can make
Operations == [1..(FallbackRetries + 1) -> BOOLEAN]

RetryArgs == [operation : Operations, maxRetries : RetryCounts, retryCount : RetryCounts]

ExecuteWithRetry ==
    /\ result = <<>>
    /\ args \in RetryArgs
    /\ result' = <<executeWithRetry(args.operation, args.maxRetries, args.retryCount)>>
    /\ UNCHANGED <<args, mcu, bluetooth, corrVars, rxVars>>

---------------------------------------------------------------------------
(* CommunicationManager: stream reassembler *)

\* a scan that takes a lone 0xAA for the start marker
findStartIndexLoneAA(buffer) ==
    LET hits == {k \in 1..Len(buffer) : buffer[k] = START_BYTES[1]}
    IN IF hits = {} THEN -1 ELSE (CHOOSE k \in hits : \A h \in hits : k <= h) - 1

\* the scan for 0xAA 0x55: the first index (0-based) it is found at, or -1
findStartIndex(buffer) ==
    LET hits == {i \in 0..(Len(buffer) - 2) :
                    buffer[i + 1] = START_BYTES[1] /\ buffer[i + 2] = START_BYTES[2]}
    IN IF hits = {} THEN -1 ELSE CHOOSE i \in hits : \A m \in hits : i <= m

RECURSIVE tryParsePackets(_, _, _)
\* The while loop of tryParsePackets, from a buffer and the history so far.  The
\* catch clause never runs: parseResponse turns every decode error into a response,
\* and nothing else in the try block throws.
tryParsePackets(buffer, out, cut) ==
    IF Len(buffer) < MinPacketLength
    THEN [responseBuffer |-> buffer, delivered |-> out, extracted |-> cut]
    ELSE LET startIndex == findStartIndex(buffer)
         IN IF startIndex = -1
            THEN [responseBuffer |-> <<>>, delivered |-> out, extracted |-> cut]
            ELSE LET trimmed == Slice(buffer, startIndex, Len(buffer))
                 IN IF Len(trimmed) < MinPacketLength
                    THEN [responseBuffer |-> trimmed, delivered |-> out, extracted |-> cut]
                    ELSE LET dataLength == U16LE(trimmed, LengthOffset)
                             totalPacketLength == 16 + dataLength
                         IN IF Len(trimmed) < totalPacketLength
                            THEN [responseBuffer |-> trimmed, delivered |-> out,
                                  extracted |-> cut]
                            ELSE LET packetBuffer == Slice(trimmed, 0, totalPacketLength)
                                 IN tryParsePackets(
                                        Slice(trimmed, totalPacketLength, Len(trimmed)),
                                        Append(out, parseResponse(packetBuffer)),
                                        Append(cut, packetBuffer))

---------------------------------------------------------------------------
(* What the transport delivers to the reassembler *)

\* the request packet numbers the device's frames answer (their responseId)
FrameIds == 1..2

\* the payload process_command_packet writes for ping (IN "ping", ST OK, no DA),
\* in the frame layout of encodePacket
PingResponseFrame(n) ==
    packetBytes(DEVICE_RESPONSE, SlavePacketId, n,
                tlvBytes(TagIN, CmdPing) \o tlvBytes(TagST, <<STATUS_OK>>))

\* the payload written for temp (IN "temp", ST OK, DA { "T " 22.5f }), same layout
TempResponseFrame(n) ==
    packetBytes(DEVICE_RESPONSE, SlavePacketId, n,
                tlvBytes(TagIN, CmdTemp) \o tlvBytes(TagST, <<STATUS_OK>>)
                \o tlvBytes(TagDA, tlvBytes(TagT, <<0, 0, 180, 65>>)))

\* the payload of send_error_response without description (EC UNKNOWN), same layout
ErrorFrame(n) ==
    packetBytes(DEVICE_ERROR, SlavePacketId, n, tlvBytes(TagEC, <<ERROR_UNKNOWN>>))

\* a frame of the same layout whose first payload bytes (its first tag) happen to
\* spell its payload length
LengthTagFrame(n) ==
    packetBytes(DEVICE_RESPONSE, SlavePacketId, n, tlvBytes(<<8, 0>>, <<1, 2, 3, 4>>))

ValidFrames ==
    UNION {{PingResponseFrame(n), TempResponseFrame(n), ErrorFrame(n), LengthTagFrame(n)} :
           n \in FrameIds}

RECURSIVE Run(_, _)
Run(b, n) == IF n = 0 THEN <<>> ELSE <<b>> \o Run(b, n - 1)

\* byte streams that hold no 0xAA 0x55: a run of 0x55, a run of 0xAA, a run of 0x00
Garbage ==
    {Run(85, a) \o Run(170, b) \o Run(0, c) :
        a \in 0..MaxGarbageLen, b \in 0..MaxGarbageLen, c \in 0..MaxGarbageLen}

\* offsets at which a frame is damaged: start marker, payloadLen, first payload
\* bytes, first CRC byte, end marker
CorruptOffsets(f) == {0, 8, 10, 11, Len(f) - 6, Len(f) - 1}

Corrupted(f, off) == [f EXCEPT ![off + 1] = BitXor(f[off + 1], 1)]

NonEmpty(chunks) == SelectSeq(chunks, LAMBDA c : c # <<>>)

RxScenarios ==
    UNION {{[kind |-> "garbage", frames |-> <<>>, stream |-> g,
             chunks |-> NonEmpty(<<SubSeq(g, 1, k), SubSeq(g, k + 1, Len(g))>>)] :
               k \in 0..Len(g)} : g \in {x \in Garbage : Len(x) <= MaxGarbageLen}}
    \cup
    UNION {{[kind |-> "split", frames |-> <<f>>, stream |-> f,
             chunks |-> <<SubSeq(f, 1, k), SubSeq(f, k + 1, Len(f))>>] :
               k \in 1..(Len(f) - 1)} : f \in ValidFrames}
    \cup
    {[kind |-> "pair", frames |-> <<fg[1], fg[2]>>, stream |-> fg[1] \o fg[2],
      chunks |-> <<fg[1] \o fg[2]>>] : fg \in ValidFrames \X ValidFrames}
    \cup
    UNION {{[kind |-> "corrupt", frames |-> <<fg[1], fg[2]>>,
             stream |-> Corrupted(fg[1], off) \o fg[2],
             chunks |-> <<Corrupted(fg[1], off), fg[2]>>] :
               off \in CorruptOffsets(fg[1])} : fg \in ValidFrames \X ValidFrames}

\* a flood: a start marker and a header that declares a payload of n bytes (in the
\* payloadLen field and in the two bytes the reassembler reads), then filler
FloodHeader(n) ==
    START_BYTES \o <<VERSION, DEVICE_RESPONSE>> \o Bytes16LE(SlavePacketId)
    \o Bytes16LE(1) \o Bytes16LE(n) \o Bytes16LE(n) \o Run(0, 4)

\* the payload lengths the flood headers declare: twice the largest frame of the
\* protocol, and the largest a header can declare
FloodLengths == {2 * MAX_PACKET_SIZE, 65535}

FloodScenarios ==
    {[kind |-> "flood", frames |-> <<>>,
      stream |-> FloodHeader(n) \o Run(b, k * FloodChunkLen),
      chunks |-> <<FloodHeader(n)>> \o [i \in 1..k |-> Run(b, FloodChunkLen)]] :
        n \in FloodLengths, b \in {0, 17}, k \in 0..MaxFloodChunks}

---------------------------------------------------------------------------
(* CommunicationManager: API methods over sendRequest *)

Null == <<"null", <<>>>>
Boolean(b) == <<"boolean", <<IF b THEN 1 ELSE 0>>>>

\* how the promise of sendRequest ends: resolved with a parsed response, or
\* rejected with an Error (also the errors sendRequest throws before its promise)
Resolved(response) == [settled |-> "resolved", response |-> response, error |-> ""]
Rejected(error) == [settled |-> "rejected", response |-> CorruptResponse(""), error |-> error]

\* what an API method hands to its caller
Returns(value) == [thrown |-> FALSE, value |-> value, error |-> ""]
Throws(error) == [thrown |-> TRUE, value |-> Undefined, error |-> error]

\* obj?.name of a JavaScript value
getProperty(obj, name) ==
    IF obj[1] # "object" THEN Undefined
    ELSE LET hits == {k \in 1..Len(obj[2]) : obj[2][k][1] = name}
         IN IF hits = {} THEN Undefined ELSE obj[2][CHOOSE k \in hits : TRUE][2]

\* the methods that return response.success, and false from their catch clause:
\* ping, setRTCDate, setRTCTime, setAlarmConfigs
returnsSuccess(sent) == IF sent.settled = "rejected" THEN Returns(Boolean(FALSE)) ELSE Returns(Boolean(sent.response.success))

ping(sent) == returnsSuccess(sent)
setRTCDate(sent) == returnsSuccess(sent)
setRTCTime(sent) == returnsSuccess(sent)
setAlarmConfigs(sent) == returnsSuccess(sent)

\* getCurrentTemperature(): the temperature of a successful response, else null
getCurrentTemperature(sent) ==
    IF sent.settled = "rejected" THEN Returns(Null)
    ELSE LET temperature == getProperty(sent.response.data, "temperature")
         IN IF sent.response.success /\ temperature # Undefined
            THEN Returns(temperature)
            ELSE Returns(Null)

\* the methods that return response.data.<name> of a successful response when it
\* is truthy, else null: getRTCDate, getRTCTime, getTemperatureLogs
returnsField(sent, name) ==
    IF sent.settled = "rejected" THEN Returns(Null)
    ELSE LET field == getProperty(sent.response.data, name)
         IN IF sent.response.success /\ Truthy(field) THEN Returns(field) ELSE Returns(Null)

getRTCDate(sent) == returnsField(sent, "date")
getRTCTime(sent) == returnsField(sent, "time")
getTemperatureLogs(sent) == returnsField(sent, "logs")

\* the errors of sendRequest: no device or link down, timeout, write failure,
\* clearPendingRequests
SendErrors ==
    {"Device not connected", "Request timeout for command", "Failed to send request",
     "Device disconnected"}

CmdGlog == <<103, 108, 111, 103>>
CmdGdat == <<103, 100, 97, 116>>
CmdGtim == <<103, 116, 105, 109>>

\* the command each method sends
CommandOf(method) ==
    CASE method = "ping" -> CmdPing
      [] method = "getCurrentTemperature" -> CmdTemp
      [] method = "setRTCDate" -> CmdSdat
      [] method = "setRTCTime" -> CmdStim
      [] method = "setAlarmConfigs" -> CmdSalm
      [] method = "getTemperatureLogs" -> CmdGlog
      [] method = "getRTCDate" -> CmdGdat
      [] method = "getRTCTime" -> CmdGtim

\* the methods that read a value from the device
Getters == {"getCurrentTemperature", "getRTCDate", "getRTCTime", "getTemperatureLogs"}

ApiMethods == Getters \cup {"ping", "setRTCDate", "setRTCTime", "setAlarmConfigs"}

\* a response frame of the device that carries a status and no data
StatusFrame(instruction, status, n) ==
    packetBytes(DEVICE_RESPONSE, SlavePacketId, n,
                tlvBytes(TagIN, instruction) \o tlvBytes(TagST, <<status>>))

\* the response frame of handle_get_log with an empty LG list
EmptyLogFrame(n) ==
    packetBytes(DEVICE_RESPONSE, SlavePacketId, n,
                tlvBytes(TagIN, CmdGlog) \o tlvBytes(TagST, <<STATUS_OK>>)
                \o tlvBytes(TagDA, tlvBytes(TagLG, <<>>)))

\* the response frames of handle_get_rtc_date and handle_get_rtc_time
DateResponseFrame(n) ==
    packetBytes(DEVICE_RESPONSE, SlavePacketId, n,
                tlvBytes(TagIN, CmdGdat) \o tlvBytes(TagST, <<STATUS_OK>>)
                \o tlvBytes(TagDA, tlvBytes(TagYY, <<25>>) \o tlvBytes(TagMM, <<6>>)
                                   \o tlvBytes(TagDD, <<15>>) \o tlvBytes(TagWK, <<7>>)))

TimeResponseFrame(n) ==
    packetBytes(DEVICE_RESPONSE, SlavePacketId, n,
                tlvBytes(TagIN, CmdGtim) \o tlvBytes(TagST, <<STATUS_OK>>)
                \o tlvBytes(TagDA, tlvBytes(TagHH, <<12>>) \o tlvBytes(TagMM, <<30>>)
                                   \o tlvBytes(TagSS, <<45>>)))

DeviceStatuses == {STATUS_OK, STATUS_INVALID_PARAM, STATUS_NOT_INITIALIZED, STATUS_SENSOR_ERROR, STATUS_STORAGE_ERROR, STATUS_INTERNAL_ERROR}

\* the frames the device can answer a method's command with
AnswerFrames(method) ==
    UNION {{StatusFrame(CommandOf(method), st, n) :
               st \in {x \in DeviceStatuses : x = STATUS_OK => method \notin Getters}} \cup
           (CASE method = "getCurrentTemperature" -> {TempResponseFrame(n)}
              [] method = "getTemperatureLogs" -> {EmptyLogFrame(n)}
              [] method = "getRTCDate" -> {DateResponseFrame(n)}
              [] method = "getRTCTime" -> {TimeResponseFrame(n)}
              [] OTHER -> {}) : n \in FrameIds}

\* the ways the request of a method can end: rejected, or resolved by a response
\* that parses to the method's command (handleParsedResponse matches by command)
SendOutcomes(method) ==
    {Rejected(e) : e \in SendErrors}
    \cup {Resolved(p) : p \in {q \in {parseResponse(f) : f \in AnswerFrames(method)} :
                                   q.command = String(CommandOf(method))}}

ApiArgs == UNION {[method : {m}, sent : SendOutcomes(m)] : m \in ApiMethods}

callApi(method, sent) ==
    CASE method = "ping" -> ping(sent)
      [] method = "getCurrentTemperature" -> getCurrentTemperature(sent)
      [] method = "setRTCDate" -> setRTCDate(sent)
      [] method = "setRTCTime" -> setRTCTime(sent)
      [] method = "setAlarmConfigs" -> setAlarmConfigs(sent)
      [] method = "getTemperatureLogs" -> getTemperatureLogs(sent)
      [] method = "getRTCDate" -> getRTCDate(sent)
      [] method = "getRTCTime" -> getRTCTime(sent)

CallApi ==
    /\ result = <<>>
    /\ args \in ApiArgs
    /\ result' = <<callApi(args.method, args.sent)>>
    /\ UNCHANGED <<args, mcu, bluetooth, corrVars, rxVars>>

---------------------------------------------------------------------------
(* CommunicationManager: request/response correlator *)

Requests == 1..MaxRequests
Commands == {"temp", "ping"}

\* resolve(...) / reject(...) on a request's promise: only the first call settles it
Settle(outcome, r, how) == IF outcome[r] = "none" THEN how ELSE outcome[r]

\* the request a device frame answers (the device echoes its packetId as responseId)
OriginOf(m) == CHOOSE r \in Requests : reqPc[r] # "unused" /\ reqPacketId[r] = m.responseId

\* connectDevice(device): connects the link if needed, keeps the device, registers
\* the data listener
ConnectDevice ==
    /\ disconnectPc = "idle"
    /\ device = "null" \/ ~linkUp
    /\ device' = "dev"
    /\ linkUp' = TRUE
    /\ listening' = TRUE
    /\ UNCHANGED <<disconnectPc, packetCounter, pendingRequests, nextReq, reqCommand,
                   reqPacketId, reqPc, reqOutcome, timerArmed, writeState, respInFlight,
                   deliveryLog, rxVars, fnVars>>

\* the transport drops on its own; the manager is not told
LinkLost ==
    /\ linkUp
    /\ linkUp' = FALSE
    /\ respInFlight' = {}
    /\ UNCHANGED <<device, listening, disconnectPc, packetCounter, pendingRequests, nextReq,
                   reqCommand, reqPacketId, reqPc, reqOutcome, timerArmed, writeState,
                   deliveryLog, rxVars, fnVars>>

\* an API method builds its request (encodePacket takes the next packet number) and
\* calls sendRequest, which runs up to `await this.device.isConnected()`
SendRequestBegin(c) ==
    /\ nextReq <= MaxRequests
    /\ LET r == nextReq
       IN /\ packetCounter' = getNextPacketNumber(packetCounter)
          /\ reqPacketId' = [reqPacketId EXCEPT ![r] = packetCounter']
          /\ reqCommand' = [reqCommand EXCEPT ![r] = c]
          /\ IF device = "null"
             THEN /\ reqPc' = [reqPc EXCEPT ![r] = "thrown"]
                  /\ reqOutcome' = [reqOutcome EXCEPT ![r] = "notConnected"]
             ELSE /\ reqPc' = [reqPc EXCEPT ![r] = "awaitIsConnected"]
                  /\ UNCHANGED reqOutcome
    /\ nextReq' = nextReq + 1
    /\ UNCHANGED <<device, linkUp, listening, disconnectPc, pendingRequests, timerArmed,
                   writeState, respInFlight, deliveryLog, rxVars, fnVars>>

\* sendRequest resumes with the answer of isConnected(): it throws, or it creates the
\* promise: arms the timer, stores the entry under the command, starts the write.
\* `this.device!.write` throws a TypeError inside the executor when the device has
\* been detached meanwhile: the promise is rejected, entry and timer stay.
SendRequestResume(r) ==
    /\ reqPc[r] = "awaitIsConnected"
    /\ IF ~linkUp
       THEN /\ reqPc' = [reqPc EXCEPT ![r] = "thrown"]
            /\ reqOutcome' = [reqOutcome EXCEPT ![r] = "notConnected"]
            /\ UNCHANGED <<timerArmed, pendingRequests, writeState>>
       ELSE /\ reqPc' = [reqPc EXCEPT ![r] = "promised"]
            /\ timerArmed' = [timerArmed EXCEPT ![r] = TRUE]
            /\ pendingRequests' = [pendingRequests EXCEPT ![reqCommand[r]] = r]
            /\ IF device = "null"
               THEN /\ reqOutcome' = [reqOutcome EXCEPT ![r] = "typeError"]
                    /\ UNCHANGED writeState
               ELSE /\ writeState' = [writeState EXCEPT ![r] = "inFlight"]
                    /\ UNCHANGED reqOutcome
    /\ UNCHANGED <<device, linkUp, listening, disconnectPc, packetCounter, nextReq,
                   reqCommand, reqPacketId, respInFlight, deliveryLog, rxVars, fnVars>>

\* device.write(buffer) completes: the request is on its way to the device
WriteDone(r) ==
    /\ writeState[r] = "inFlight"
    /\ linkUp
    /\ writeState' = [writeState EXCEPT ![r] = "written"]
    /\ UNCHANGED <<device, linkUp, listening, disconnectPc, packetCounter, pendingRequests,
                   nextReq, reqCommand, reqPacketId, reqPc, reqOutcome, timerArmed,
                   respInFlight, deliveryLog, rxVars, fnVars>>

\* device.write(buffer) rejects: the .catch handler of sendRequest
WriteFailed(r) ==
    /\ writeState[r] = "inFlight"
    /\ writeState' = [writeState EXCEPT ![r] = "failed"]
    /\ timerArmed' = [timerArmed EXCEPT ![r] = FALSE]
    /\ pendingRequests' = [pendingRequests EXCEPT ![reqCommand[r]] = 0]
    /\ reqOutcome' = [reqOutcome EXCEPT ![r] = Settle(reqOutcome, r, "sendFailed")]
    /\ UNCHANGED <<device, linkUp, listening, disconnectPc, packetCounter, nextReq,
                   reqCommand, reqPacketId, reqPc, respInFlight, deliveryLog, rxVars, fnVars>>

\* the device answers a request it received: a DEVICE_RESPONSE echoing the
\* instruction, or a DEVICE_ERROR (which carries no IN field)
DeviceAnswer(r, kind) ==
    /\ writeState[r] = "written"
    /\ linkUp
    /\ writeState' = [writeState EXCEPT ![r] = "answered"]
    /\ respInFlight' = respInFlight \cup
           {[responseId |-> reqPacketId[r], kind |-> kind,
             command |-> IF kind = "response" THEN reqCommand[r] ELSE "unknown"]}
    /\ UNCHANGED <<device, linkUp, listening, disconnectPc, packetCounter, pendingRequests,
                   nextReq, reqCommand, reqPacketId, reqPc, reqOutcome, timerArmed,
                   deliveryLog, rxVars, fnVars>>

\* a variant of handleParsedResponse that clears the timer and drops the entry but
\* never calls resolve
HandleParsedResponseNoResolve(m) ==
    /\ m \in respInFlight
    /\ listening /\ linkUp
    /\ respInFlight' = respInFlight \ {m}
    /\ LET requestKey == m.command
           p == IF requestKey \in Commands THEN pendingRequests[requestKey] ELSE 0
       IN IF p # 0
          THEN /\ timerArmed' = [timerArmed EXCEPT ![p] = FALSE]
               /\ pendingRequests' = [pendingRequests EXCEPT ![requestKey] = 0]
               /\ UNCHANGED <<reqOutcome, deliveryLog>>
          ELSE UNCHANGED <<timerArmed, pendingRequests, reqOutcome, deliveryLog>>
    /\ UNCHANGED <<device, linkUp, listening, disconnectPc, packetCounter, nextReq,
                   reqCommand, reqPacketId, reqPc, writeState, rxVars, fnVars>>

\* handleParsedResponse(response) for a frame of the device that has been decoded
HandleParsedResponse(m) ==
    /\ m \in respInFlight
    /\ listening /\ linkUp
    /\ respInFlight' = respInFlight \ {m}
    /\ LET requestKey == m.command
           p == IF requestKey \in Commands THEN pendingRequests[requestKey] ELSE 0
       IN IF p # 0
          THEN /\ timerArmed' = [timerArmed EXCEPT ![p] = FALSE]
               /\ pendingRequests' = [pendingRequests EXCEPT ![requestKey] = 0]
               /\ reqOutcome' = [reqOutcome EXCEPT ![p] = Settle(reqOutcome, p, "resolved")]
               /\ deliveryLog' = deliveryLog \cup
                      {[to |-> p, responseId |-> m.responseId,
                        late |-> reqOutcome[OriginOf(m)] = "timeout"]}
          ELSE UNCHANGED <<timerArmed, pendingRequests, reqOutcome, deliveryLog>>
    /\ UNCHANGED <<device, linkUp, listening, disconnectPc, packetCounter, nextReq,
                   reqCommand, reqPacketId, reqPc, writeState, rxVars, fnVars>>

\* the setTimeout callback of sendRequest
TimerFire(r) ==
    /\ timerArmed[r]
    /\ timerArmed' = [timerArmed EXCEPT ![r] = FALSE]
    /\ pendingRequests' = [pendingRequests EXCEPT ![reqCommand[r]] = 0]
    /\ reqOutcome' = [reqOutcome EXCEPT ![r] = Settle(reqOutcome, r, "timeout")]
    /\ UNCHANGED <<device, linkUp, listening, disconnectPc, packetCounter, nextReq,
                   reqCommand, reqPacketId, reqPc, writeState, respInFlight, deliveryLog,
                   rxVars, fnVars>>

\* disconnectDevice() enters its try block and awaits isConnected() / disconnect()
DisconnectBegin ==
    /\ device # "null"
    /\ disconnectPc = "idle"
    /\ disconnectPc' = "inTry"
    /\ UNCHANGED <<device, linkUp, listening, packetCounter, pendingRequests, nextReq,
                   reqCommand, reqPacketId, reqPc, reqOutcome, timerArmed, writeState,
                   respInFlight, deliveryLog, rxVars, fnVars>>

\* clearPendingRequests(): every entry of the table has its timer cleared and is rejected
clearPendingRequests ==
    LET held == {pendingRequests[c] : c \in Commands} \ {0}
    IN /\ timerArmed' = [r \in Requests |-> IF r \in held THEN FALSE ELSE timerArmed[r]]
       /\ reqOutcome' = [r \in Requests |-> IF r \in held
                                            THEN Settle(reqOutcome, r, "disconnected")
                                            ELSE reqOutcome[r]]
       /\ pendingRequests' = [c \in Commands |-> 0]

\* the finally block of disconnectDevice(); closed says whether the native disconnect
\* went through (the catch clause swallows its failure)
DisconnectFinally(closed) ==
    /\ disconnectPc = "inTry"
    /\ disconnectPc' = "idle"
    /\ linkUp' = IF closed THEN FALSE ELSE linkUp
    /\ respInFlight' = IF closed THEN {} ELSE respInFlight
    /\ device' = "null"
    /\ clearPendingRequests
    /\ responseBuffer' = <<>>
    /\ UNCHANGED <<listening, packetCounter, nextReq, reqCommand, reqPacketId, reqPc,
                   writeState, deliveryLog, delivered, extracted, rxChunks, rxScenario,
                   fnVars>>

---------------------------------------------------------------------------
(* CommunicationManager: receive path *)

\* handleReceivedData(data) for the next chunk of the transport: append, then
\* tryParsePackets
HandleReceivedData ==
    /\ rxChunks # <<>>
    /\ LET after == tryParsePackets(responseBuffer \o Head(rxChunks), delivered, extracted)
       IN /\ responseBuffer' = after.responseBuffer
          /\ delivered' = after.delivered
          /\ extracted' = after.extracted
    /\ rxChunks' = Tail(rxChunks)
    /\ UNCHANGED <<rxScenario, corrVars, fnVars>>

---------------------------------------------------------------------------
(* BluetoothManager: connect, its retries and cancelConnection, for one      *)
(* device address. A connection state object is a number; activeConnections  *)
(* holds the number of the state stored under the address, 0 for no entry.   *)

\* const maxRetries = 2 of connect
maxRetries == 2

Calls == 1..MaxConnectCalls

\* the errors that end the race of connect: what RNBClassic.connectToDevice rejects
\* with, the 20 s timeout and the rejection of the cancellation check
NativeErrors == {"retryable", "alreadyConnecting", "alreadyConnected", "fatal"}

\* BluetoothErrorHandler.isRetryableError: "Connection timeout after 20 seconds" and
\* "Connection cancelled by user" are not retryable
isRetryableError(err) == err = "retryable"

\* a new connection state object {promise, cancelled: false} stored under the address
newState(b, c) ==
    [b EXCEPT !.activeConnections = b.nextState,
              !.state = [@ EXCEPT ![c] = b.nextState],
              !.nextState = @ + 1]

\* connect(deviceAddress, retryCount) up to its first await (no scan is running):
\* an entry that is not cancelled makes the call return, else the call goes on to
\* await isDeviceConnected
connectEntry(b, c, retryCount) ==
    IF b.activeConnections # 0 /\ b.activeConnections \notin b.cancelled
    THEN [b EXCEPT !.pc = [@ EXCEPT ![c] = "ignored"]]
    ELSE [b EXCEPT !.activeConnections = 0,
                   !.pc = [@ EXCEPT ![c] = "awaitIsConnected"],
                   !.retryCount = [@ EXCEPT ![c] = retryCount]]

\* the catch clause of connect up to its next await or return
catchError(b, c, err) ==
    LET cleared == [b EXCEPT !.activeConnections = 0]
    IN IF err = "alreadyConnecting"
       THEN [newState(cleared, c) EXCEPT !.pc = [@ EXCEPT ![c] = "waitNative"]]
       ELSE IF isRetryableError(err) /\ b.retryCount[c] < maxRetries
       THEN [newState(cleared, c) EXCEPT !.pc = [@ EXCEPT ![c] = "retryWait"]]
       ELSE IF err = "alreadyConnected"
       THEN [cleared EXCEPT !.pc = [@ EXCEPT ![c] = "connected"]]
       ELSE IF err = "cancelled"
       THEN [cleared EXCEPT !.pc = [@ EXCEPT ![c] = "cancelled"]]
       ELSE [cleared EXCEPT !.pc = [@ EXCEPT ![c] = "failed"]]

\* connect(address) is called
Connect(c) ==
    /\ bluetooth.module = "BluetoothManager"
    /\ bluetooth.pc[c] = "unused"
    /\ \A d \in Calls : d < c => bluetooth.pc[d] # "unused"
    /\ bluetooth' = connectEntry(bluetooth, c, 0)
    /\ UNCHANGED <<args, result, mcu, corrVars, rxVars>>

\* await isDeviceConnected(address) returns: when the device is not connected the
\* call stores its connection state, calls RNBClassic.connectToDevice and awaits the
\* race of the connection, the timeout and the cancellation check
IsDeviceConnectedReturns(c) ==
    /\ bluetooth.module = "BluetoothManager"
    /\ bluetooth.pc[c] = "awaitIsConnected"
    /\ bluetooth' =
         IF bluetooth.connected
         THEN [bluetooth EXCEPT !.pc = [@ EXCEPT ![c] = "connected"]]
         ELSE [newState(bluetooth, c) EXCEPT !.pc = [@ EXCEPT ![c] = "awaitRace"],
                                             !.native = @ \cup {c}]
    /\ UNCHANGED <<args, result, mcu, corrVars, rxVars>>

\* RNBClassic.connectToDevice resolves: the link is up; a call still awaiting its
\* race clears the entry of the address and reports the connection
NativeResolves(c) ==
    /\ bluetooth.module = "BluetoothManager"
    /\ c \in bluetooth.native
    /\ LET up == [bluetooth EXCEPT !.native = @ \ {c}, !.connected = TRUE]
       IN bluetooth' = IF bluetooth.pc[c] = "awaitRace"
                       THEN [up EXCEPT !.activeConnections = 0,
                                       !.pc = [@ EXCEPT ![c] = "connected"]]
                       ELSE up
    /\ UNCHANGED <<args, result, mcu, corrVars, rxVars>>

\* RNBClassic.connectToDevice rejects
NativeRejects(c, err) ==
    /\ bluetooth.module = "BluetoothManager"
    /\ c \in bluetooth.native
    /\ LET down == [bluetooth EXCEPT !.native = @ \ {c}]
       IN bluetooth' = IF bluetooth.pc[c] = "awaitRace" THEN catchError(down, c, err) ELSE down
    /\ UNCHANGED <<args, result, mcu, corrVars, rxVars>>

\* the 20 s timeout of the race fires first
ConnectionTimeout(c) ==
    /\ bluetooth.module = "BluetoothManager"
    /\ bluetooth.pc[c] = "awaitRace"
    /\ bluetooth' = catchError(bluetooth, c, "timeout")
    /\ UNCHANGED <<args, result, mcu, corrVars, rxVars>>

\* the 100 ms cancellation check finds the call's state cancelled or no entry under
\* the address and rejects the race
CancellationCheck(c) ==
    /\ bluetooth.module = "BluetoothManager"
    /\ bluetooth.pc[c] = "awaitRace"
    /\ bluetooth.state[c] \in bluetooth.cancelled \/ bluetooth.activeConnections = 0
    /\ bluetooth' = catchError(bluetooth, c, "cancelled")
    /\ UNCHANGED <<args, result, mcu, corrVars, rxVars>>

\* the wait for the native attempt ends (cancelled, connected or 30 s over): the entry
\* is deleted and isDeviceConnected awaited
WaitForNativeEnds(c) ==
    /\ bluetooth.module = "BluetoothManager"
    /\ bluetooth.pc[c] = "waitNative"
    /\ bluetooth' = [bluetooth EXCEPT !.activeConnections = 0,
                                      !.pc = [@ EXCEPT ![c] = "awaitAfterWait"]]
    /\ UNCHANGED <<args, result, mcu, corrVars, rxVars>>

\* after the wait: a device still not connected is tried again while retries are left
AfterWaitForNative(c) ==
    /\ bluetooth.module = "BluetoothManager"
    /\ bluetooth.pc[c] = "awaitAfterWait"
    /\ bluetooth' =
         IF ~bluetooth.connected /\ bluetooth.retryCount[c] < maxRetries
         THEN connectEntry(bluetooth, c, bluetooth.retryCount[c] + 1)
         ELSE [bluetooth EXCEPT !.pc = [@ EXCEPT ![c] = "returned"]]
    /\ UNCHANGED <<args, result, mcu, corrVars, rxVars>>

\* the 2 s wait before a retry is over: a cancelled or missing state ends the call,
\* else clearStaleConnection is awaited
RetryWaitEnds(c) ==
    /\ bluetooth.module = "BluetoothManager"
    /\ bluetooth.pc[c] = "retryWait"
    /\ bluetooth' =
         IF \/ bluetooth.state[c] \in bluetooth.cancelled
            \/ bluetooth.activeConnections = 0
            \/ bluetooth.activeConnections \in bluetooth.cancelled
         THEN [bluetooth EXCEPT !.activeConnections = 0,
                                !.pc = [@ EXCEPT ![c] = "cancelled"]]
         ELSE [bluetooth EXCEPT !.pc = [@ EXCEPT ![c] = "clearStale"]]
    /\ UNCHANGED <<args, result, mcu, corrVars, rxVars>>

\* clearStaleConnection has disconnected a connected device; connect is called again
\* with retryCount + 1
ClearStaleConnectionReturns(c) ==
    /\ bluetooth.module = "BluetoothManager"
    /\ bluetooth.pc[c] = "clearStale"
    /\ bluetooth' = connectEntry([bluetooth EXCEPT !.connected = FALSE], c,
                                 bluetooth.retryCount[c] + 1)
    /\ UNCHANGED <<args, result, mcu, corrVars, rxVars>>

\* cancelConnection(address): the state under the address is marked cancelled and
\* the entry deleted; waiting records the calls that were in their retry wait
CancelConnection ==
    /\ bluetooth.module = "BluetoothManager"
    /\ bluetooth.cancels < MaxCancels
    /\ bluetooth' =
         [bluetooth EXCEPT !.cancelled = IF bluetooth.activeConnections # 0
                                         THEN @ \cup {bluetooth.activeConnections} ELSE @,
                           !.activeConnections = 0,
                           !.cancels = @ + 1,
                           !.waiting = @ \cup {c \in Calls : bluetooth.pc[c] = "retryWait"}]
    /\ UNCHANGED <<args, result, mcu, corrVars, rxVars>>

---------------------------------------------------------------------------
(* Specifications *)

CorrInit ==
    /\ device = "null"
    /\ linkUp = FALSE
    /\ listening = FALSE
    /\ disconnectPc = "idle"
    /\ packetCounter = 0
    /\ pendingRequests = [c \in Commands |-> 0]
    /\ nextReq = 1
    /\ reqCommand = [r \in Requests |-> "none"]
    /\ reqPacketId = [r \in Requests |-> 0]
    /\ reqPc = [r \in Requests |-> "unused"]
    /\ reqOutcome = [r \in Requests |-> "none"]
    /\ timerArmed = [r \in Requests |-> FALSE]
    /\ writeState = [r \in Requests |-> "none"]
    /\ respInFlight = {}
    /\ deliveryLog = {}

RxIdle ==
    /\ responseBuffer = <<>>
    /\ delivered = <<>>
    /\ extracted = <<>>

\* no stateful device module under study
McuOff == mcu = [module |-> "none"]
BluetoothOff == bluetooth = [module |-> "none"]

\* no function call under study
FnIdle ==
    /\ args = [op |-> "none"]
    /\ result = <<>>
    /\ McuOff
    /\ BluetoothOff

\* the correlator, with nothing arriving at the reassembler
Init ==
    /\ CorrInit
    /\ RxIdle
    /\ FnIdle
    /\ rxChunks = <<>>
    /\ rxScenario = [kind |-> "none", frames |-> <<>>, stream |-> <<>>, chunks |-> <<>>]

Next ==
    \/ ConnectDevice
    \/ LinkLost
    \/ \E c \in Commands : SendRequestBegin(c)
    \/ \E r \in Requests : SendRequestResume(r)
    \/ \E r \in Requests : WriteDone(r)
    \/ \E r \in Requests : WriteFailed(r)
    \/ \E r \in Requests : \E kind \in {"response", "error"} : DeviceAnswer(r, kind)
    \/ \E m \in respInFlight : HandleParsedResponse(m)
    \/ \E r \in Requests : TimerFire(r)
    \/ DisconnectBegin
    \/ \E closed \in BOOLEAN : DisconnectFinally(closed)

Spec == Init /\ [][Next]_vars

\* the reassembler, fed one of the byte streams of RxScenarios chunk by chunk
InitRx ==
    /\ CorrInit
    /\ RxIdle
    /\ FnIdle
    /\ rxScenario \in RxScenarios
    /\ rxChunks = rxScenario.chunks

NextRx == HandleReceivedData

SpecRx == InitRx /\ [][NextRx]_vars

\* the frame codec: a frame is encoded, then decoded
InitHostCodec ==
    /\ CorrInit
    /\ RxIdle
    /\ rxChunks = <<>>
    /\ rxScenario = [kind |-> "none", frames |-> <<>>, stream |-> <<>>, chunks |-> <<>>]
    /\ args \in EncodeArgs
    /\ result = <<>>
    /\ McuOff
    /\ BluetoothOff

NextHostCodec == EncodePacket \/ DecodePacket

SpecHostCodec == InitHostCodec /\ [][NextHostCodec]_vars

\* the frame decoder on frames with one payload bit inverted
InitBitFlip ==
    /\ CorrInit
    /\ RxIdle
    /\ rxChunks = <<>>
    /\ rxScenario = [kind |-> "none", frames |-> <<>>, stream |-> <<>>, chunks |-> <<>>]
    /\ args \in FlipArgs
    /\ result = <<>>
    /\ McuOff
    /\ BluetoothOff

NextBitFlip == EncodePacket \/ DecodeFlipped

SpecBitFlip == InitBitFlip /\ [][NextBitFlip]_vars

\* the device's byte stuffing: a byte sequence is escaped, then unescaped
InitStuffing ==
    /\ CorrInit
    /\ RxIdle
    /\ rxChunks = <<>>
    /\ rxScenario = [kind |-> "none", frames |-> <<>>, stream |-> <<>>, chunks |-> <<>>]
    /\ args \in StuffArgs
    /\ result = <<>>
    /\ McuOff
    /\ BluetoothOff

NextStuffing == EscapeData \/ UnescapeData

SpecStuffing == InitStuffing /\ [][NextStuffing]_vars

\* the device's frame codec: a frame is built, then parsed
InitDevCodec ==
    /\ CorrInit
    /\ RxIdle
    /\ rxChunks = <<>>
    /\ rxScenario = [kind |-> "none", frames |-> <<>>, stream |-> <<>>, chunks |-> <<>>]
    /\ args \in BuildArgs
    /\ result = <<>>
    /\ McuOff
    /\ BluetoothOff

NextDevCodec == BuildPacket \/ ParsePacket

SpecDevCodec == InitDevCodec /\ [][NextDevCodec]_vars

\* host to device: a request frame is encoded by the host, then parsed by the device
InitHostToDevice ==
    /\ CorrInit
    /\ RxIdle
    /\ rxChunks = <<>>
    /\ rxScenario = [kind |-> "none", frames |-> <<>>, stream |-> <<>>, chunks |-> <<>>]
    /\ args \in RequestArgs
    /\ result = <<>>
    /\ McuOff
    /\ BluetoothOff

NextHostToDevice == CreateRequest \/ ParseRequest

SpecHostToDevice == InitHostToDevice /\ [][NextHostToDevice]_vars

\* the device's dispatcher: a request payload is dispatched, a request frame is
\* received and answered
InitDispatch ==
    /\ CorrInit
    /\ RxIdle
    /\ rxChunks = <<>>
    /\ rxScenario = [kind |-> "none", frames |-> <<>>, stream |-> <<>>, chunks |-> <<>>]
    /\ args \in CommandArgs \cup ReceiveArgs
    /\ result = <<>>
    /\ McuOff
    /\ BluetoothOff

NextDispatch == ProcessCommandPacket \/ ProcessReceivedData

SpecDispatch == InitDispatch /\ [][NextDispatch]_vars

\* the device's TLV readers applied to buffers of every small size
InitTlvRead ==
    /\ CorrInit
    /\ RxIdle
    /\ rxChunks = <<>>
    /\ rxScenario = [kind |-> "none", frames |-> <<>>, stream |-> <<>>, chunks |-> <<>>]
    /\ args \in TlvReadArgs
    /\ result = <<>>
    /\ McuOff
    /\ BluetoothOff

NextTlvRead == ReadTlv

SpecTlvRead == InitTlvRead /\ [][NextTlvRead]_vars

\* the device's log query: handle_get_log on a stored log
InitGetLog ==
    /\ CorrInit
    /\ RxIdle
    /\ rxChunks = <<>>
    /\ rxScenario = [kind |-> "none", frames |-> <<>>, stream |-> <<>>, chunks |-> <<>>]
    /\ args \in GetLogArgs
    /\ result = <<>>
    /\ McuOff
    /\ BluetoothOff

NextGetLog == HandleGetLog

SpecGetLog == InitGetLog /\ [][NextGetLog]_vars

\* the host's TLV codec: a field is encoded, then decoded
InitHostTlv ==
    /\ CorrInit
    /\ RxIdle
    /\ rxChunks = <<>>
    /\ rxScenario = [kind |-> "none", frames |-> <<>>, stream |-> <<>>, chunks |-> <<>>]
    /\ args \in TlvArgs
    /\ result = <<>>
    /\ McuOff
    /\ BluetoothOff

NextHostTlv == EncodeTlv \/ DecodeTlv

SpecHostTlv == InitHostTlv /\ [][NextHostTlv]_vars

\* the host's packet counter: a fresh ProtocolService encodes request after request
InitCounter ==
    /\ CorrInit
    /\ RxIdle
    /\ rxChunks = <<>>
    /\ rxScenario = [kind |-> "none", frames |-> <<>>, stream |-> <<>>, chunks |-> <<>>]
    /\ args = [op |-> "encodeCalls"]
    /\ result = <<>>
    /\ McuOff
    /\ BluetoothOff

NextCounter == EncodeNext

SpecCounter == InitCounter /\ [][NextCounter]_vars

\* executeWithRetry applied to every operation and retry count of RetryArgs
InitRetry ==
    /\ CorrInit
    /\ RxIdle
    /\ rxChunks = <<>>
    /\ rxScenario = [kind |-> "none", frames |-> <<>>, stream |-> <<>>, chunks |-> <<>>]
    /\ args \in RetryArgs
    /\ result = <<>>
    /\ McuOff
    /\ BluetoothOff

NextRetry == ExecuteWithRetry

SpecRetry == InitRetry /\ [][NextRetry]_vars

\* the API methods applied to every way their request can end
InitApi ==
    /\ CorrInit
    /\ RxIdle
    /\ rxChunks = <<>>
    /\ rxScenario = [kind |-> "none", frames |-> <<>>, stream |-> <<>>, chunks |-> <<>>]
    /\ args \in ApiArgs
    /\ result = <<>>
    /\ McuOff
    /\ BluetoothOff

NextApi == CallApi

SpecApi == InitApi /\ [][NextApi]_vars

\* the reassembler fed a header that declares a long payload, then filler chunks
InitFlood ==
    /\ CorrInit
    /\ RxIdle
    /\ FnIdle
    /\ rxScenario \in FloodScenarios
    /\ rxChunks = rxScenario.chunks

NextFlood == HandleReceivedData

SpecFlood == InitFlood /\ [][NextFlood]_vars

\* the temperature log: temp_log_init(), then add after add, with queries
InitTempLog ==
    /\ CorrInit
    /\ RxIdle
    /\ rxChunks = <<>>
    /\ rxScenario = [kind |-> "none", frames |-> <<>>, stream |-> <<>>, chunks |-> <<>>]
    /\ args \in LogRunArgs
    /\ result = <<>>
    /\ mcu = [module |-> "temp_log", log |-> temp_log_init, added |-> <<>>]
    /\ BluetoothOff

NextTempLog == TempLogAddEntry \/ TempLogGetEntries

SpecTempLog == InitTempLog /\ [][NextTempLog]_vars

\* the device's UART module: communication_init(), then the host's frames byte by
\* byte, the task and the interrupts in every order
InitUart ==
    /\ CorrInit
    /\ RxIdle
    /\ rxChunks = <<>>
    /\ rxScenario = [kind |-> "none", frames |-> <<>>, stream |-> <<>>, chunks |-> <<>>]
    /\ args \in UartArgs
    /\ result = <<>>
    /\ mcu = communication_init(wireOf(args.frames))
    /\ BluetoothOff

NextUart ==
    \/ UartRxByte
    \/ CommunicationTaskProcess
    \/ CommunicationTaskRestart
    \/ CommunicationTxComplete
    \/ \E aborted \in BOOLEAN : CommunicationError(aborted)

SpecUart == InitUart /\ [][NextUart]_vars

\* the alarm configuration: alarm_init(), then salm and galm requests and the host's
\* reading of the answers, in every order
InitAlarm ==
    /\ CorrInit
    /\ RxIdle
    /\ rxChunks = <<>>
    /\ rxScenario = [kind |-> "none", frames |-> <<>>, stream |-> <<>>, chunks |-> <<>>]
    /\ args \in AlarmArgs
    /\ result = <<>>
    /\ mcu = [module |-> "alarm",
              g_alarm_configs |-> IF args.preset
                                  THEN alarm_set_config(alarm_set_config(alarm_init, 0, Float20, Float30), 1, Float15, Float35)
                                  ELSE alarm_init]
    /\ BluetoothOff

NextAlarm == SetAlarms \/ GetAlarms \/ ParseAlarmResponse

SpecAlarm == InitAlarm /\ [][NextAlarm]_vars

\* BluetoothManager for one address: connect calls, the native attempts' outcomes,
\* the timers of connect and cancelConnection, in every order
InitBluetooth ==
    /\ CorrInit
    /\ RxIdle
    /\ rxChunks = <<>>
    /\ rxScenario = [kind |-> "none", frames |-> <<>>, stream |-> <<>>, chunks |-> <<>>]
    /\ args = [op |-> "bluetooth"]
    /\ result = <<>>
    /\ McuOff
    /\ bluetooth = [module |-> "BluetoothManager", activeConnections |-> 0,
                    cancelled |-> {}, nextState |-> 1,
                    pc |-> [c \in Calls |-> "unused"], state |-> [c \in Calls |-> 0],
                    retryCount |-> [c \in Calls |-> 0], connected |-> FALSE,
                    native |-> {}, cancels |-> 0, waiting |-> {}]

NextBluetooth ==
    \/ \E c \in Calls : Connect(c)
    \/ \E c \in Calls : IsDeviceConnectedReturns(c)
    \/ \E c \in Calls : NativeResolves(c)
    \/ \E c \in Calls, err \in NativeErrors : NativeRejects(c, err)
    \/ \E c \in Calls : ConnectionTimeout(c)
    \/ \E c \in Calls : CancellationCheck(c)
    \/ \E c \in Calls : WaitForNativeEnds(c)
    \/ \E c \in Calls : AfterWaitForNative(c)
    \/ \E c \in Calls : RetryWaitEnds(c)
    \/ \E c \in Calls : ClearStaleConnectionReturns(c)
    \/ CancelConnection

SpecBluetooth == InitBluetooth /\ [][NextBluetooth]_vars

---------------------------------------------------------------------------
(* Properties of the correlator (specification Spec) *)

\* the requests that hold the entry of some command key
Tracked == {pendingRequests[c] : c \in Commands} \ {0}

\* C1: while a request is pending under a command key (its entry is in the table and
\* it has not been settled), no step replaces or removes that entry without settling
\* the request in the same step; a second send never silently takes the key over.
C1_NeverSilentlyReplaced ==
    [][\A c \in Commands :
         LET p == pendingRequests[c]
         IN (p # 0 /\ reqOutcome[p] = "none")
                => (pendingRequests'[c] = p \/ reqOutcome'[p] # "none")]_vars

\* C2: a request that timed out has no timer and no entry left, and a response that
\* arrives after its request timed out is applied to no request.
C2_TimeoutFinalLateIgnored ==
    /\ \A r \in Requests : reqOutcome[r] = "timeout" => ~timerArmed[r] /\ r \notin Tracked
    /\ \A d \in deliveryLog : ~d.late

\* C3: every response handed to a request carries that request's packetId as its
\* responseId.
C3_DeliveredByPacketId ==
    \A d \in deliveryLog : d.responseId = reqPacketId[d.to]

\* C4: when a response matches an entry of the table, that entry's timer is
\* cancelled, the entry is removed and its caller receives the response (the request
\* is resolved); a resolved request has no armed timer.
C4_MatchResolvesCaller ==
    [][\A d \in deliveryLog' \ deliveryLog :
         /\ ~timerArmed'[d.to]
         /\ d.to \notin {pendingRequests'[c] : c \in Commands}
         /\ reqOutcome'[d.to] = "resolved"]_vars

\* C5: whenever no device is attached, the pending-request table is empty and no
\* request timer is armed.
C5_NothingOutlivesTransport ==
    device = "null" =>
        /\ \A c \in Commands : pendingRequests[c] = 0
        /\ \A r \in Requests : ~timerArmed[r]

\* an earlier request for the same command has been resolved or has timed out
PredecessorSettled(r) ==
    \E q \in Requests :
        /\ q # r
        /\ reqPc[q] # "unused"
        /\ reqCommand[q] = reqCommand[r]
        /\ reqOutcome[q] \in {"resolved", "timeout"}

\* a step of a request r sent after an earlier request for its command was settled:
\* when sendRequest goes on over a live link r is accepted and is the pending entry
\* of its command with its timer armed; when the response to r is handled while r
\* is that entry, r is resolved with it
C26Step ==
    \A r \in Requests :
        /\ (/\ PredecessorSettled(r)
            /\ reqPc[r] = "awaitIsConnected"
            /\ reqPc'[r] # "awaitIsConnected"
            /\ linkUp)
               => /\ reqPc'[r] = "promised"
                  /\ pendingRequests'[reqCommand[r]] = r
                  /\ timerArmed'[r]
        /\ (/\ PredecessorSettled(r)
            /\ reqPc[r] = "promised"
            /\ pendingRequests[reqCommand[r]] = r
            /\ reqOutcome[r] = "none"
            /\ listening /\ linkUp /\ linkUp'
            /\ \E m \in respInFlight :
                   /\ respInFlight' = respInFlight \ {m}
                   /\ m.kind = "response" /\ m.responseId = reqPacketId[r]
                   /\ m.command = reqCommand[r])
               => /\ reqOutcome'[r] = "resolved"
                  /\ pendingRequests'[reqCommand[r]] = 0
                  /\ \E d \in deliveryLog' : d.to = r /\ d.responseId = reqPacketId[r]

---------------------------------------------------------------------------
(* Properties of the reassembler (specification SpecRx) *)

\* C6: one valid frame fed in two chunks is delivered exactly once, as the frame
\* that the same bytes produce when they arrive in one chunk and as its decoding.
C6_SplitFrameDeliveredOnce ==
    (rxScenario.kind = "split" /\ rxChunks = <<>>)
        => /\ Len(delivered) = 1
           /\ delivered = tryParsePackets(rxScenario.stream, <<>>, <<>>).delivered
           /\ delivered = <<parseResponse(rxScenario.stream)>>

\* C7: two valid frames arriving back to back in one chunk are both delivered, in
\* stream order.
C7_BackToBackBothDelivered ==
    (rxScenario.kind = "pair" /\ rxChunks = <<>>)
        => /\ extracted = rxScenario.frames
           /\ delivered = <<parseResponse(rxScenario.frames[1]),
                            parseResponse(rxScenario.frames[2])>>

\* C8: every extracted frame is 16 + payloadLen bytes long, payloadLen being frame
\* bytes 8 and 9, and the reassembler keeps waiting on a buffered frame start only
\* while the buffer is shorter than that.
C8_LengthFromPayloadLen ==
    /\ \A i \in 1..Len(extracted) : Len(extracted[i]) = 16 + U16LE(extracted[i], 8)
    /\ Len(responseBuffer) >= MinPacketLength
           => Len(responseBuffer) < 16 + U16LE(responseBuffer, 8)

\* C9: after a frame with a structural defect, the valid frame that follows it in the
\* stream is still extracted and delivered.
C9_FrameAfterCorruptDelivered ==
    (rxScenario.kind = "corrupt" /\ rxChunks = <<>>)
        => \E i \in 1..Len(extracted) :
               /\ extracted[i] = rxScenario.frames[2]
               /\ delivered[i] = parseResponse(rxScenario.frames[2])

\* C10 as stated: once bytes without a start marker have been fed, the receive
\* buffer is empty and nothing has been delivered.
C10_GarbageLeavesBufferEmpty ==
    (rxScenario.kind = "garbage" /\ Len(rxChunks) < Len(rxScenario.chunks))
        => responseBuffer = <<>> /\ delivered = <<>>

\* C10 amended: feeding bytes without a start marker delivers no frame; the receive
\* buffer is emptied whenever it has reached 16 bytes, and otherwise keeps the (fewer
\* than 16) bytes fed since it was last emptied.
C10_GarbageDrainedFromSixteen ==
    [][(rxScenario.kind = "garbage" /\ rxChunks # <<>> /\ rxChunks' = Tail(rxChunks))
         => /\ delivered' = <<>>
            /\ responseBuffer' =
                   IF Len(responseBuffer \o Head(rxChunks)) >= MinPacketLength
                   THEN <<>>
                   ELSE responseBuffer \o Head(rxChunks)]_vars

\* C10 witness: a marker-free stream of at least 16 bytes, fed in two chunks of which
\* the first was retained, has been fed completely and the buffer is empty.
C10_Witness ==
    /\ rxScenario.kind = "garbage"
    /\ Len(rxScenario.chunks) = 2
    /\ Len(rxScenario.chunks[1]) < MinPacketLength
    /\ Len(rxScenario.stream) >= MinPacketLength
    /\ \E k \in 1..Len(rxScenario.stream) : rxScenario.stream[k] = START_BYTES[1]
    /\ rxChunks = <<>>
    /\ responseBuffer = <<>>
    /\ delivered = <<>>

\* the number of bytes in a sequence of chunks
RECURSIVE chunksLen(_)
chunksLen(chunks) == IF chunks = <<>> THEN 0 ELSE Len(Head(chunks)) + chunksLen(Tail(chunks))

\* the bytes handleReceivedData has been called with so far
fedBytes == SubSeq(rxScenario.stream, 1, Len(rxScenario.stream) - chunksLen(rxChunks))

\* C28: no framing, CRC or TLV decode error raised while received bytes are
\* processed leaves the receive path as an exception: every extracted frame that
\* fails to decode is handed on as a CORRUPT response; and after any malformed
\* input the manager still processes later chunks: the receive buffer is a tail of
\* all the bytes fed, and the parse loop has run to its end on it (fewer than 16
\* bytes are left, or a start marker with a frame still incomplete).
C28_DecodeErrorsContained ==
    /\ Len(delivered) = Len(extracted)
    /\ \A k \in 1..Len(extracted) :
           LET err == decodePacket(extracted[k]).err
           IN err # "" => delivered[k] = CorruptResponse(err)
    /\ \E k \in 0..Len(fedBytes) : responseBuffer = SubSeq(fedBytes, k + 1, Len(fedBytes))
    /\ \/ Len(responseBuffer) < MinPacketLength
       \/ /\ findStartIndex(responseBuffer) = 0
          /\ Len(responseBuffer) < 16 + U16LE(responseBuffer, LengthOffset)

\* C28 witness: a damaged frame was extracted and failed to decode with a framing,
\* CRC or TLV error, and the chunk that followed it has been processed too.
C28_Witness ==
    /\ rxScenario.kind = "corrupt"
    /\ rxChunks = <<>>
    /\ \E k \in 1..Len(extracted) :
           /\ decodePacket(extracted[k]).err # ""
           /\ delivered[k] = CorruptResponse(decodePacket(extracted[k]).err)
    /\ responseBuffer # <<>>

\* C30: the host receive buffer is bounded: whatever bytes arrive (for example a
\* start marker, a header declaring a large payload length, then a stream of data)
\* its length never exceeds a fixed cap, here the largest frame of the protocol; an
\* overflow is reported and not accumulated.
C30_ReceiveBufferCapped == Len(responseBuffer) <= MAX_PACKET_SIZE

---------------------------------------------------------------------------
(* Properties of the frame codec (specification SpecHostCodec) *)

\* C11: decoding the frame encodePacket produced succeeds and returns the payload
\* that was encoded and the packet number assigned at encode time.
C11_DecodeInvertsEncode ==
    (args.op = "encodePacket" /\ Len(result) = 2)
        => /\ result[2].err = ""
           /\ result[2].data = args.data
           /\ result[2].packetNumber = getNextPacketNumber(args.counter)

\* C12: decoding a frame with one payload bit inverted fails, and fails with the
\* CRC mismatch error.
C12_BitFlipIsCrcMismatch ==
    (args.op = "encodePacket" /\ Len(result) = 3) => result[3].err = "CRC32 mismatch"

---------------------------------------------------------------------------
(* Properties of the device's frame codec *)

\* C16: unescape_data applied to the output of escape_data succeeds and returns the
\* bytes that were escaped.
C16_UnescapeInvertsEscape ==
    (args.op = "escape_data" /\ Len(result) >= 1)
        => /\ result[1].ret = Len(result[1].out)
           /\ Len(result) = 2 => (result[2].ret = Len(args.input) /\ result[2].out = args.input)

\* C16 witness: a sequence holding both marker bytes next to each other and a genuine
\* zero after a marker byte has been escaped and unescaped.
C16_Witness ==
    /\ args.op = "escape_data"
    /\ Len(result) = 2
    /\ args.input = <<170, 85, ESCAPE_BYTE, 170>>
    /\ result[1].out = <<170, 0, 85, 0, 0, 170, 0>>
    /\ result[2].out = args.input

\* C13: parse_packet applied to the frame build_packet wrote succeeds and returns the
\* payload and the header fields that were given to build_packet.
C13_ParseInvertsBuild ==
    (args.op = "build_packet" /\ Len(result) = 2)
        => /\ result[2].ret = Len(args.data)
           /\ result[2].data = args.data
           /\ result[2].header = [version |-> VERSION, type |-> args.type,
                                  packet_id |-> args.packet_id,
                                  response_id |-> args.response_id,
                                  data_length |-> Len(args.data)]

\* C14: between the start marker and the end marker of a frame build_packet wrote
\* there is no adjacent pair AA 55 and no adjacent pair 55 AA.
C14_NoMarkerInsideFrame ==
    (args.op = "build_packet" /\ Len(result) >= 1 /\ result[1].ret >= 0)
        => LET frame == result[1].out
           IN /\ result[1].ret = Len(frame)
              /\ SubSeq(frame, 1, 2) = START_BYTES
              /\ SubSeq(frame, Len(frame) - 1, Len(frame)) = END_BYTES
              /\ \A k \in 3..(Len(frame) - 3) :
                    /\ ~(frame[k] = 170 /\ frame[k + 1] = 85)
                    /\ ~(frame[k] = 85 /\ frame[k + 1] = 170)

\* C14 witness: a frame has been built from a packet id and a payload that both hold
\* the bytes of a marker next to each other.
C14_Witness ==
    /\ args.op = "build_packet"
    /\ Len(result) >= 1
    /\ result[1].ret >= 0
    /\ args.packet_id = 43605
    /\ args.data = <<85, 170, 85, 170>>

\* C15: the device's parse_packet accepts every request frame of the host and
\* recovers the packet id, the type and the payload the host encoded.
C15_DeviceAcceptsHostFrame ==
    (args.op = "createRequest" /\ Len(result) = 2)
        => /\ result[2].ret >= 0
           /\ result[2].header.packet_id = getNextPacketNumber(args.counter)
           /\ result[2].header.type = HOST_REQUEST
           /\ result[2].data = encodeTLVs(args.data)

---------------------------------------------------------------------------
(* Properties of the device's dispatcher (specification SpecDispatch) *)

\* what is between the markers of a frame, with the stuffing taken out
frameBody(frame) == unescape_data(Slice(frame, 2, Len(frame) - 2), MAX_PACKET_SIZE).out
frameType(frame) == frameBody(frame)[2]
frameResponseId(frame) == U16LE(frameBody(frame), 4)
framePayload(frame) ==
    Slice(frameBody(frame), HeaderSize, HeaderSize + U16LE(frameBody(frame), 6))

\* the request has an IN TLV whose value is a command name
CarriesKnownInstruction(fields) ==
    \E k \in 1..Len(fields) :
        fields[k].tag = TagIN /\ \E c \in 1..Len(command_table) : command_table[c] = fields[k].value

\* the value of the first IN TLV of the request
InstructionOf(fields) ==
    fields[CHOOSE k \in 1..Len(fields) :
               fields[k].tag = TagIN /\ \A j \in 1..(k - 1) : fields[j].tag # TagIN].value

\* the payload IN, ST, and DA exactly when the handler's response data is not empty
ResponseShape(payload, instruction, data) ==
    \E st \in Byte :
        payload = tlvBytes(TagIN, instruction) \o tlvBytes(TagST, <<st>>)
                  \o (IF data # <<>> THEN tlvBytes(TagDA, data) ELSE <<>>)

\* C17: for every request carrying a known instruction the dispatcher writes a
\* DEVICE_RESPONSE frame whose responseId is the request's packetId and whose payload
\* is IN (the request's instruction), ST, and DA exactly when the handler produced
\* response data.
C17_KnownInstructionAnswered ==
    (/\ args.op = "process_command_packet"
     /\ Len(result) = 1
     /\ CarriesKnownInstruction(args.fields))
        => /\ ~result[1].fault
           /\ result[1].ret = 0
           /\ frameType(result[1].out) = DEVICE_RESPONSE
           /\ frameResponseId(result[1].out) = args.response_id
           /\ ResponseShape(framePayload(result[1].out), InstructionOf(args.fields),
                            result[1].handler.data)

\* the value of the ST TLV of a response payload
statusOf(payload) == read_tlv_uint8(payload, Len(payload), TagST, "none").value[1]

\* the response payload has a DA TLV
hasDA(payload) == read_tlv_raw(payload, Len(payload), TagDA, MAX_DATA_SIZE, "none").ret >= 0

\* the handler of the request has been called and has returned (no fault)
HandlerReturned ==
    /\ args.op = "process_command_packet"
    /\ Len(result) = 1
    /\ result[1].handler.called
    /\ ~result[1].fault

\* C18: a request frame whose payload has no IN TLV, or whose IN value is no entry of
\* the command table, is answered with one DEVICE_ERROR frame carrying error code
\* UNKNOWN, and with no normal response frame.
C18_UnknownInstructionIsError ==
    (/\ args.op = "process_received_data"
     /\ Len(result) = 1
     /\ args.type = HOST_REQUEST
     /\ parse_packet(requestFrame(args), MAX_DATA_SIZE, args.mode).ret >= 0
     /\ ~CarriesKnownInstruction(args.fields))
        => /\ ~result[1].fault
           /\ Len(result[1].sent) = 1
           /\ frameType(result[1].sent[1]) = DEVICE_ERROR
           /\ frameResponseId(result[1].sent[1]) = args.packet_id
           /\ SubSeq(framePayload(result[1].sent[1]), 1, 5) = tlvBytes(TagEC, <<ERROR_UNKNOWN>>)

\* C19: whenever the handler returned a negative result, the response frame has
\* ST = INTERNAL_ERROR and no DA, whatever status the handler wrote.
C19_FailureForcesInternalError ==
    (HandlerReturned /\ result[1].handler.result < 0)
        => /\ result[1].ret = 0
           /\ frameType(result[1].out) = DEVICE_RESPONSE
           /\ statusOf(framePayload(result[1].out)) = STATUS_INTERNAL_ERROR
           /\ ~hasDA(framePayload(result[1].out))
           /\ framePayload(result[1].out)
                  = tlvBytes(TagIN, InstructionOf(args.fields))
                    \o tlvBytes(TagST, <<STATUS_INTERNAL_ERROR>>)

\* C19 witness: the get-temperature handler failed on a broken sensor, having written
\* the status SENSOR_ERROR, and the response frame has been written.
C19_Witness ==
    /\ HandlerReturned
    /\ InstructionOf(args.fields) = CmdTemp
    /\ result[1].handler.result < 0
    /\ result[1].handler.status = STATUS_SENSOR_ERROR
    /\ result[1].ret = 0
    /\ statusOf(framePayload(result[1].out)) = STATUS_INTERNAL_ERROR

\* C20: when the handler rejected the request with INVALID_PARAM, NOT_INITIALIZED or
\* SENSOR_ERROR, the ST field of the response frame is that status.
C20_SpecificStatusCarried ==
    (/\ HandlerReturned
     /\ result[1].handler.result < 0
     /\ result[1].handler.status \in {STATUS_INVALID_PARAM, STATUS_NOT_INITIALIZED,
                                      STATUS_SENSOR_ERROR})
        => /\ result[1].ret = 0
           /\ statusOf(framePayload(result[1].out)) = result[1].handler.status

\* the request has no DA TLV
HasNoDA(fields) == \A k \in 1..Len(fields) : fields[k].tag # TagDA

\* C21: a request with a known instruction and no DA TLV reaches its handler and is
\* answered with a DEVICE_RESPONSE frame, never with an error.
C21_MissingDAIsEmptyArguments ==
    (/\ args.op = "process_command_packet"
     /\ Len(result) = 1
     /\ CarriesKnownInstruction(args.fields)
     /\ HasNoDA(args.fields))
        => /\ result[1].handler.called
           /\ ~result[1].fault
           /\ result[1].ret = 0
           /\ frameType(result[1].out) = DEVICE_RESPONSE

---------------------------------------------------------------------------
(* Properties of the device's TLV readers (specification SpecTlvRead) *)

\* C24: a TLV read examines only bytes inside the buffer it was given, for every
\* buffer_size from 0 on, and the scan ends.
C24_ReadStaysInsideBuffer ==
    (args.op = "read_tlv" /\ Len(result) = 1)
        => /\ ~result[1].fault
           /\ result[1].reach <= Len(args.buffer)

---------------------------------------------------------------------------
(* Properties of the device's log query (specification SpecGetLog) *)

RECURSIVE logItems(_, _, _)
\* one IT item (TS, T) for each entry of the log with lo <= timestamp <= hi
logItems(log, lo, hi) ==
    IF log = <<>> THEN <<>>
    ELSE (IF Head(log).timestamp >= lo /\ Head(log).timestamp <= hi
          THEN tlvBytes(TagIT, tlvBytes(TagTS, Bytes64LE(Head(log).timestamp))
                               \o tlvBytes(TagT, Head(log).temperature))
          ELSE <<>>)
         \o logItems(Tail(log), lo, hi)

\* the glog request with T1 = 1000 and T2 = 2000 and no MX
RangeQuery == requestBytes(<<Tlv(TagT1, Bytes64LE(1000)), Tlv(TagT2, Bytes64LE(2000))>>)

\* C22: a glog request with range [T1, T2] is answered with an LG list holding one
\* item (timestamp, temperature) for each stored entry whose timestamp is in the
\* range and none for the others; entries at 1500 (22.5) and 2500 (23.0) queried
\* with T1 = 1000, T2 = 2000 give the one item (1500, 22.5).
C22_LogRangeReturned ==
    (args.op = "handle_get_log" /\ Len(result) = 1 /\ args.request_data = RangeQuery)
        => /\ result[1].result = 0
           /\ result[1].status = STATUS_OK
           /\ result[1].data = tlvBytes(TagLG, logItems(args.log, 1000, 2000))

---------------------------------------------------------------------------
(* Properties of the host's TLV codec (specification SpecHostTlv) *)

\* the decoded value w is the value v that was encoded: the same value, or the same
\* integer read as a uint64, or the float 20.0 that the integer 20 is
SameValue(v, w) ==
    \/ w = v
    \/ v[1] = "number" /\ w = Uint64(Bytes64LE(v[2][1]))
    \/ v = Number(20) /\ w = Float32(<<0, 0, 160, 65>>)

\* C23: decodeTLV(encodeTLV(tag, v)) returns (tag, v) for every tag of the decoder's
\* table and every value of that tag's type.
C23_DecodeTLVInvertsEncodeTLV ==
    (args.op = "encodeTLV" /\ Len(result) = 2)
        => /\ result[2].err = ""
           /\ result[2].field.tag = args.tag
           /\ SameValue(args.value, result[2].field.value)
           /\ result[2].nextOffset = Len(result[1])

---------------------------------------------------------------------------
(* Properties of the host's packet counter (specification SpecCounter) *)

\* the packet number a host frame is stamped with
packetNumberOf(frame) == U16LE(frame, 4)

\* C25: each encode call moves the packet counter on by one and stamps the frame
\* with the new value: the packetIds of consecutive encodes are consecutive modulo
\* 128 and every packetId is in 0..127.
C25_ConsecutivePacketIds ==
    (args.op = "encodeCalls" /\ Len(result) >= 1)
        => /\ packetNumberOf(result[Len(result)]) = packetCounter
           /\ \A k \in 1..Len(result) : packetNumberOf(result[k]) \in 0..MAX_PACKET_NUMBER
           /\ Len(result) = 2 =>
                  packetNumberOf(result[2])
                      = (packetNumberOf(result[1]) + 1) % (MAX_PACKET_NUMBER + 1)

\* C25 witness: the counter has wrapped, the frame after packetId 127 carries 0.
C25_Witness ==
    /\ args.op = "encodeCalls"
    /\ Len(result) = 2
    /\ packetNumberOf(result[1]) = MAX_PACKET_NUMBER
    /\ packetNumberOf(result[2]) = 0
    /\ packetCounter = 0

---------------------------------------------------------------------------
(* Properties of executeWithRetry (specification SpecRetry) *)

\* the first call of the operation that succeeds among the first n, or 0
RECURSIVE firstSuccess(_, _, _)
firstSuccess(operation, k, n) == IF k > n THEN 0 ELSE IF operation[k] THEN k ELSE firstSuccess(operation, k + 1, n)

\* C27: executeWithRetry(operation, n) makes at most n + 1 attempts for every n >= 0
\* (one attempt for n = 0), waits 1 second times the attempt number between attempts,
\* stops at the first success, and otherwise throws the last error after attempt n + 1.
C27_BoundedAttempts ==
    (result # <<>> /\ args \in RetryArgs /\ args.maxRetries # <<>>) =>
        LET n == args.maxRetries[1]
            r == result[1]
            s == firstSuccess(args.operation, 1, n + 1)
        IN /\ r.attempts <= n + 1
           /\ \A k \in 1..Len(r.waits) : r.waits[k] = RetryDelayMs * k
           /\ Len(r.waits) = r.attempts - 1
           /\ s # 0 => r.outcome = "returned" /\ r.attempts = s /\ r.value = s
           /\ s = 0 => r.outcome = "thrown" /\ r.attempts = n + 1 /\ r.value = n + 1

---------------------------------------------------------------------------
(* Properties of the API methods (specification SpecApi) *)

\* the request failed: its promise was rejected (timeout, disconnect, send failure)
\* or the device answered with an error status
RequestFailed(sent) == sent.settled = "rejected" \/ ~sent.response.success

\* C29: an asynchronous API method of CommunicationManager (ping,
\* getCurrentTemperature, setRTCDate, ...) signals a failed request (timeout, disconnect, send
\* failure, device error status) by throwing.
C29_FailureIsThrown ==
    (result # <<>> /\ args \in ApiArgs /\ RequestFailed(args.sent)) => result[1].thrown

---------------------------------------------------------------------------
(* Properties of the device's temperature log (specification SpecTempLog) *)

\* the last k elements of a sequence
lastOf(seq, k) == SubSeq(seq, Len(seq) - k + 1, Len(seq))

\* C31: after n temp_log_add_entry calls following temp_log_init the log holds
\* min(n, 100) entries, the count never exceeds 100 and the write index stays
\* below 100; temp_log_get_entries over the full time range with a cap of at least
\* that many returns exactly the most recent min(n, 100) entries, oldest first.
C31_LogKeepsMostRecent ==
    LET n == Len(mcu.added)
        held == IF n < MAX_LOG_ENTRIES THEN n ELSE MAX_LOG_ENTRIES
    IN /\ mcu.log.g_log_count = held
       /\ mcu.log.g_log_write_index < MAX_LOG_ENTRIES
       /\ (result # <<>> /\ result[1].max_entries >= held)
              => result[1].entries = lastOf(mcu.added, held)

\* C31 witness: more than 100 entries were added, so the ring has wrapped, and a
\* query with a cap of 100 has returned the 100 most recent ones.
C31_Witness ==
    /\ Len(mcu.added) > MAX_LOG_ENTRIES + 1
    /\ result # <<>>
    /\ result[1].max_entries = MAX_LOG_ENTRIES
    /\ Len(result[1].entries) = MAX_LOG_ENTRIES
    /\ result[1].entries[1] = mcu.added[Len(mcu.added) - MAX_LOG_ENTRIES + 1]

---------------------------------------------------------------------------
(* Properties of the device's UART module (specification SpecUart) *)

\* C32: after the device has finished handling a received frame in
\* communication_task, UART reception is armed again, so that the next request the
\* host sends is received.
C32_ReceptionRearmed ==
    (mcu.module = "communication" /\ mcu.handled > 0 /\ mcu.taskPc = "idle")
        => mcu.dma # -1


\* C35: for a well-formed stuffed frame delivered byte by byte, the receive callback
\* marks reception complete exactly when the last byte of the frame's end marker
\* arrives, whatever the bytes before the end marker are.
C35_CompleteAtEndMarker ==
    (mcu.module = "communication" /\ mcu.uartErrors = 0)
        => LET frame == requestFrame(args.frames[1])
           IN /\ mcu.fed >= Len(frame) => mcu.completedAt # <<>>
              /\ mcu.completedAt # <<>> => mcu.completedAt[1] = Len(frame)

---------------------------------------------------------------------------
(* Properties of the correlator's timers and error frames (specification Spec) *)

\* the step in which the timer of request r expires: the timer was armed and
\* is cleared by neither a response, a failed write nor a disconnect
TimerExpires(r) ==
    /\ timerArmed[r]
    /\ ~timerArmed'[r]
    /\ writeState' = writeState
    /\ respInFlight' = respInFlight
    /\ disconnectPc' = disconnectPc

\* C33: the expiry of one request's timer removes only that request's own pending
\* entry; the entry of a different, later request for the same command is left as
\* it is.
C33Step ==
    \A r \in Requests :
        TimerExpires(r) =>
            \A c \in Commands :
                pendingRequests[c] # r => pendingRequests'[c] = pendingRequests[c]

C33_TimerRemovesOwnEntryOnly == [][C33Step]_vars

\* C34: when the device answers a request with a DEVICE_ERROR frame, the pending
\* request the frame answers is failed with that error when the frame is handled,
\* and does not stay pending until its timeout.
C34Step ==
    \A m \in respInFlight :
        (/\ m.kind = "error"
         /\ pendingRequests[reqCommand[OriginOf(m)]] = OriginOf(m)
         /\ reqOutcome[OriginOf(m)] = "none"
         /\ listening /\ linkUp /\ linkUp'
         /\ respInFlight' = respInFlight \ {m})
            => /\ reqOutcome'[OriginOf(m)] # "none"
               /\ pendingRequests'[reqCommand[OriginOf(m)]] # OriginOf(m)

C34_ErrorFrameFailsRequest == [][C34Step]_vars

---------------------------------------------------------------------------
(* Properties of the alarm configuration (specification SpecAlarm) *)

\* C36: after a salm request is answered with ST = OK, the device's stored alarm
\* configuration equals the thresholds sent in the request, so that a following
\* galm returns those thresholds.
C36_SalmStoresThresholds ==
    \A k \in 1..Len(result) :
        (result[k].op = "salm" /\ result[k].status = STATUS_OK)
            => \A j \in 1..Len(args.alarms) :
                   LET config == alarm_get_config(mcu.g_alarm_configs, args.alarms[j].id)
                   IN /\ config.low_temp = args.alarms[j].lowTemp
                      /\ config.high_temp = args.alarms[j].highTemp

\* C37: in a galm response every alarm item carries its thresholds under the tags
\* the host looks up ("L " and "H "), so that the host obtains a float32 lowTemp and
\* highTemp for every item.
C37_HostReadsThresholds ==
    \A k \in 1..Len(result) :
        (result[k].op = "parsed" /\ result[k].parsed.command = String(CmdGalm))
            => LET alarms == getProperty(result[k].parsed.data, "alarms")
               IN /\ alarms[1] = "array"
                  /\ Len(alarms[2]) = MAX_ALARMS
                  /\ \A i \in 1..Len(alarms[2]) :
                         /\ getProperty(alarms[2][i], "lowTemp")[1] = "float32"
                         /\ getProperty(alarms[2][i], "highTemp")[1] = "float32"

---------------------------------------------------------------------------
(* Properties of BluetoothManager (specification SpecBluetooth) *)

\* C38: for one device address at most one connection attempt is in progress at
\* any time: a connect call issued while another connect is still running starts no
\* second attempt, whatever the interleaving of the two calls.
C38_OneAttemptAtATime ==
    Cardinality({c \in Calls : bluetooth.pc[c] = "awaitRace"}) <= 1

\* C39: cancelConnection aborts only the attempts in progress when it was called: a
\* call that was in its retry wait at a cancel makes no further attempt, and an
\* attempt started after a cancel (its connection state is newer than the cancelled
\* one) is ended as cancelled only when its own connection state has been cancelled.
C39Step ==
    \A c \in Calls :
        /\ (c \in bluetooth.waiting /\ bluetooth.pc[c] # "awaitRace")
               => bluetooth'.pc[c] # "awaitRace"
        /\ (/\ bluetooth.pc[c] = "awaitRace"
            /\ bluetooth'.pc[c] = "cancelled"
            /\ \E s \in bluetooth.cancelled : s < bluetooth.state[c])
               => bluetooth.state[c] \in bluetooth.cancelled

C39_CancelAbortsOnlyItsAttempts == [][C39Step]_vars

=============================================================================
